---- MODULE Spec2Model ----
(***************************************************************************)
(* Model of the karabiner.ts configuration layer: the rule builders of     *)
(* src/src/lib/builders.ts and src/src/lib/functions.ts are pure operators *)
(* returning manipulator records, and the state machine runs the           *)
(* manipulators they return on key events and timers.                      *)
(*                                                                         *)
(* Time is counted in ticks of 100 ms (200 ms = 2, 300 ms = 3, 500 ms = 5).*)
(***************************************************************************)
EXTENDS Integers, Sequences, FiniteSets, TLC

VARIABLES
    cfg,      \* the configuration the rule set was generated from
    rules,    \* the generated manipulators, in evaluation order
    store,    \* the persisted variables that have been written: name -> value
    down,     \* keys that are down: key -> [m: claiming manipulator or 0, halted]
    cur,      \* the most recent key-down: key, manipulator, age, timers, store at dispatch
    delayed,  \* the pending to_delayed_action: [m, left], m = 0 when none is pending
    emitted,  \* events sent since the keyboard was last at rest: name -> count
    seq,      \* number of key-downs since the keyboard was last at rest
    last      \* the kind of the last step

vars == <<cfg, rules, store, down, cur, delayed, emitted, seq, last>>

----------------------------------------------------------------------------
(* Bounds of the model *)

\* keys that may be down at the same time
MaxDown == 2
\* key-downs between two rests of the keyboard
MaxSeq == 3

----------------------------------------------------------------------------
(* Program constants, in ticks of 100 ms *)

\* an optional number that was not given (undefined)
Undef == 0 - 1
\* tapHold: timeoutMs = 300, thresholdMs = 300
TapHoldDefaultMs == 3
\* varTapTapHold: thresholdMs = 300
VarTapDefaultMs == 3
\* the spacebar manipulator: 200 ms for both parameters
SpaceMs == 2
\* parameters of the engine when a manipulator does not set them
DefaultAloneTimeout == 10
DefaultHeldThreshold == 5
DefaultDelay == 5

Min(a, b) == IF a < b THEN a ELSE b
Max(a, b) == IF a > b THEN a ELSE b

----------------------------------------------------------------------------
(* To-events (karabiner.ts toKey, toSetVar, toStickyModifier; builders cmd) *)

toKey(k, halt) ==
    [type |-> "key_code", name |-> k, value |-> 0, mode |-> "", halt |-> halt]
toSetVar(n, v) ==
    [type |-> "set_variable", name |-> n, value |-> v, mode |-> "", halt |-> FALSE]
toStickyModifier(m, mode) ==
    [type |-> "sticky_modifier", name |-> m, value |-> 0, mode |-> mode, halt |-> FALSE]
cmd(shell) ==
    [type |-> "shell_command", name |-> shell, value |-> 0, mode |-> "", halt |-> FALSE]

\* src/unnamed/part_001 (mods.ts): the left-hand modifiers
LShift == "left_shift"
LOpt == "left_option"
LCmd == "left_command"
LCtrl == "left_control"

\* consumer (media) key helpers
vkConsumerDictation ==
    [type |-> "consumer_key_code", name |-> "al_dictionary", value |-> 0,
     mode |-> "", halt |-> FALSE]

\* virtual name -> consumer_key_code
CONSUMER_ALIAS ==
    [virtualName \in {"vk_consumer_dictation", "vk_consumer_dictionary"} |->
        IF virtualName = "vk_consumer_dictation" THEN "al_dictation"
        ELSE "al_dictionary"]

\* what consumerKey gives for a name the map does not know: it throws
UnknownAlias ==
    [type |-> "error", name |-> "Unknown consumer key alias", value |-> 0,
     mode |-> "", halt |-> FALSE]

consumerKey(virtualName) ==
    IF virtualName \notin DOMAIN CONSUMER_ALIAS THEN UnknownAlias
    ELSE [type |-> "consumer_key_code", name |-> CONSUMER_ALIAS[virtualName],
          value |-> 0, mode |-> "", halt |-> FALSE]

\* a manipulator with nothing set (karabiner.ts map(key))
map(key) ==
    [from |-> key, conditions |-> <<>>,
     to |-> <<>>, to_if_alone |-> <<>>, to_if_held_down |-> <<>>,
     to_after_key_up |-> <<>>,
     has_delayed |-> FALSE, to_if_invoked |-> <<>>, to_if_canceled |-> <<>>,
     alone_timeout |-> Undef, held_threshold |-> Undef, delay |-> Undef,
     description |-> ""]

ifVar(n, v) == [type |-> "variable_if", name |-> n, value |-> v]
unlessVar(n, v) == [type |-> "variable_unless", name |-> n, value |-> v]

\* a ?? b for optional event lists: Absent stands for a list that was not given
Absent ==
    <<[type |-> "undefined", name |-> "", value |-> 0, mode |-> "", halt |-> FALSE]>>
Given(l) == l # Absent
OrElse(a, b) == IF Given(a) THEN a ELSE b

SeqMap(F(_), s) == [i \in 1..Len(s) |-> F(s[i])]

RECURSIVE Flatten(_)
Flatten(ss) == IF ss = <<>> THEN <<>> ELSE Head(ss) \o Flatten(Tail(ss))

----------------------------------------------------------------------------
(* builders.ts *)

\* TapHoldOpts with every optional field absent
TapHoldOpts(key) ==
    [key |-> key, alone |-> Absent, hold |-> Absent,
     timeoutMs |-> Undef, thresholdMs |-> Undef,
     cancel |-> Absent, invoked |-> Absent, appOverrides |-> <<>>]

\* an entry of appOverrides with every optional field absent
AppOverride(app) ==
    [app |-> app, unless |-> FALSE, alone |-> Absent, hold |-> Absent,
     timeoutMs |-> Undef, thresholdMs |-> Undef,
     cancel |-> Absent, invoked |-> Absent]

NumOr(a, b) == IF a # Undef THEN a ELSE b

ifApp(app, unless) ==
    [type |-> IF unless THEN "frontmost_application_unless"
                        ELSE "frontmost_application_if",
     name |-> app, value |-> 0]

\* a builder that hands the hold list to to_if_alone and the alone list to
\* to_if_held_down
makeBuilder_Swapped(o, opts, cond) ==
    LET timeoutMs == NumOr(opts.timeoutMs, TapHoldDefaultMs)
        thresholdMs == NumOr(opts.thresholdMs, TapHoldDefaultMs)
        cancelEvents == OrElse(o.cancel, OrElse(opts.cancel, OrElse(opts.alone, <<>>)))
        invokedEvents == OrElse(o.invoked, OrElse(opts.invoked, <<>>))
    IN [map(opts.key) EXCEPT
           !.alone_timeout = NumOr(o.timeoutMs, timeoutMs),
           !.held_threshold = NumOr(o.thresholdMs, thresholdMs),
           !.conditions = cond,
           !.to_if_alone = OrElse(o.hold, <<>>),
           !.to_if_held_down = OrElse(o.alone, <<>>),
           !.has_delayed = TRUE,
           !.to_if_invoked = invokedEvents,
           !.to_if_canceled = cancelEvents]

\* a builder that passes the two lists of toDelayedAction in the other order
makeBuilder_InvokedFirst(o, opts, cond) ==
    LET timeoutMs == NumOr(opts.timeoutMs, TapHoldDefaultMs)
        thresholdMs == NumOr(opts.thresholdMs, TapHoldDefaultMs)
        cancelEvents == OrElse(o.cancel, OrElse(opts.cancel, OrElse(opts.alone, <<>>)))
        invokedEvents == OrElse(o.invoked, OrElse(opts.invoked, <<>>))
    IN [map(opts.key) EXCEPT
           !.alone_timeout = NumOr(o.timeoutMs, timeoutMs),
           !.held_threshold = NumOr(o.thresholdMs, thresholdMs),
           !.conditions = cond,
           !.to_if_alone = OrElse(o.alone, <<>>),
           !.to_if_held_down = OrElse(o.hold, <<>>),
           !.has_delayed = TRUE,
           !.to_if_invoked = cancelEvents,
           !.to_if_canceled = invokedEvents]

\* a builder whose canceled list falls back to the alone list it was handed
makeBuilder_OwnAlone(o, opts, cond) ==
    LET timeoutMs == NumOr(opts.timeoutMs, TapHoldDefaultMs)
        thresholdMs == NumOr(opts.thresholdMs, TapHoldDefaultMs)
        cancelEvents == OrElse(o.cancel, OrElse(opts.cancel, OrElse(o.alone, <<>>)))
        invokedEvents == OrElse(o.invoked, OrElse(opts.invoked, <<>>))
    IN [map(opts.key) EXCEPT
           !.alone_timeout = NumOr(o.timeoutMs, timeoutMs),
           !.held_threshold = NumOr(o.thresholdMs, thresholdMs),
           !.conditions = cond,
           !.to_if_alone = OrElse(o.alone, <<>>),
           !.to_if_held_down = OrElse(o.hold, <<>>),
           !.has_delayed = TRUE,
           !.to_if_invoked = invokedEvents,
           !.to_if_canceled = cancelEvents]

\* tapHold.makeBuilder: o is the override (or the default pair), opts the
\* arguments of tapHold, cond the application condition or <<>>
makeBuilder(o, opts, cond) ==
    LET timeoutMs == NumOr(opts.timeoutMs, TapHoldDefaultMs)
        thresholdMs == NumOr(opts.thresholdMs, TapHoldDefaultMs)
        cancelEvents == OrElse(o.cancel, OrElse(opts.cancel, OrElse(opts.alone, <<>>)))
        invokedEvents == OrElse(o.invoked, OrElse(opts.invoked, <<>>))
    IN [map(opts.key) EXCEPT
           !.alone_timeout = NumOr(o.timeoutMs, timeoutMs),
           !.held_threshold = NumOr(o.thresholdMs, thresholdMs),
           !.conditions = cond,
           !.to_if_alone = OrElse(o.alone, <<>>),
           !.to_if_held_down = OrElse(o.hold, <<>>),
           !.has_delayed = TRUE,
           !.to_if_invoked = invokedEvents,
           !.to_if_canceled = cancelEvents]

\* a build that pushes the default builder before the overrides
tapHold_DefaultFirst(opts) ==
    LET override(ov) == makeBuilder(ov, opts, <<ifApp(ov.app, ov.unless)>>)
        default == makeBuilder(
            [alone |-> opts.alone, hold |-> opts.hold,
             timeoutMs |-> Undef, thresholdMs |-> Undef,
             cancel |-> Absent, invoked |-> Absent], opts, <<>>)
    IN <<default>> \o SeqMap(override, opts.appOverrides)

\* tapHold(...).build(): one manipulator per override, then the default one
tapHold(opts) ==
    LET override(ov) == makeBuilder(ov, opts, <<ifApp(ov.app, ov.unless)>>)
        default == makeBuilder(
            [alone |-> opts.alone, hold |-> opts.hold,
             timeoutMs |-> Undef, thresholdMs |-> Undef,
             cancel |-> Absent, invoked |-> Absent], opts, <<>>)
    IN SeqMap(override, opts.appOverrides) \o <<default>>

\* VarTapTapHoldOpts with every optional field absent
VarTapTapHoldOpts(key, firstVar) ==
    [key |-> key, firstVar |-> firstVar,
     aloneEvents |-> Absent, holdEvents |-> Absent,
     tapTapEvents |-> Absent, tapTapHoldEvents |-> Absent,
     thresholdMs |-> Undef]

\* a second-press manipulator that opens a delayed action of its own
secondTap_OwnWindow(opts) ==
    LET thresholdMs == NumOr(opts.thresholdMs, VarTapDefaultMs)
    IN [map(opts.key) EXCEPT
           !.conditions = <<ifVar(opts.firstVar, 1)>>,
           !.alone_timeout = thresholdMs,
           !.held_threshold = thresholdMs,
           !.description = "tap-tap/tap-tap-hold",
           !.to_if_alone =
               <<toSetVar(opts.firstVar, 0)>> \o OrElse(opts.tapTapEvents, <<>>),
           !.to_if_held_down =
               <<toSetVar(opts.firstVar, 0)>> \o OrElse(opts.tapTapHoldEvents, <<>>),
           !.has_delayed = TRUE,
           !.to_if_invoked = <<toSetVar(opts.firstVar, 0)>>,
           !.to_if_canceled = <<toSetVar(opts.firstVar, 0)>>]

secondTap(opts) ==
    LET thresholdMs == NumOr(opts.thresholdMs, VarTapDefaultMs)
    IN [map(opts.key) EXCEPT
           !.conditions = <<ifVar(opts.firstVar, 1)>>,
           !.alone_timeout = thresholdMs,
           !.held_threshold = thresholdMs,
           !.description = "tap-tap/tap-tap-hold",
           !.to_if_alone =
               <<toSetVar(opts.firstVar, 0)>> \o OrElse(opts.tapTapEvents, <<>>),
           !.to_if_held_down =
               <<toSetVar(opts.firstVar, 0)>> \o OrElse(opts.tapTapHoldEvents, <<>>)]

\* a priming manipulator whose window resets the variable only when canceled
firstTap_NoReset(opts) ==
    LET thresholdMs == NumOr(opts.thresholdMs, VarTapDefaultMs)
    IN [map(opts.key) EXCEPT
           !.delay = thresholdMs,
           !.description = "tap/tap-hold prime",
           !.to = <<toSetVar(opts.firstVar, 1), toKey(opts.key, FALSE)>>,
           !.has_delayed = TRUE,
           !.to_if_invoked = <<>>,
           !.to_if_canceled = <<toSetVar(opts.firstVar, 0)>>]

firstTap(opts) ==
    LET thresholdMs == NumOr(opts.thresholdMs, VarTapDefaultMs)
    IN [map(opts.key) EXCEPT
           !.delay = thresholdMs,
           !.description = "tap/tap-hold prime",
           !.to = <<toSetVar(opts.firstVar, 1), toKey(opts.key, FALSE)>>,
           !.has_delayed = TRUE,
           !.to_if_invoked = <<toSetVar(opts.firstVar, 0)>>,
           !.to_if_canceled = <<toSetVar(opts.firstVar, 0)>>]

tapHandlerTap(opts) ==
    LET thresholdMs == NumOr(opts.thresholdMs, VarTapDefaultMs)
    IN [map(opts.key) EXCEPT
           !.conditions = <<ifVar(opts.firstVar, 1)>>,
           !.alone_timeout = thresholdMs,
           !.held_threshold = thresholdMs,
           !.description = "tap/tap-hold handler",
           !.to_if_alone = OrElse(opts.aloneEvents, <<>>),
           !.to_if_held_down = OrElse(opts.holdEvents, <<>>)]

NonEmpty(l) == Given(l) /\ Len(l) > 0

\* a list with the priming manipulator ahead of the second-press one
varTapTapHold_PrimeFirst(opts) ==
    LET manipulators == <<firstTap(opts), secondTap(opts)>>
    IN IF NonEmpty(opts.aloneEvents) \/ NonEmpty(opts.holdEvents)
       THEN <<tapHandlerTap(opts)>> \o manipulators
       ELSE manipulators

varTapTapHold(opts) ==
    LET manipulators == <<secondTap(opts), firstTap(opts)>>
    IN IF NonEmpty(opts.aloneEvents) \/ NonEmpty(opts.holdEvents)
       THEN <<tapHandlerTap(opts)>> \o manipulators
       ELSE manipulators

----------------------------------------------------------------------------
(* functions.ts *)

spaceModVar == "space_mod"
sublayerVarOf(layerKey) == "space_" \o layerKey \o "_sublayer"
allSublayerVars(spaceLayers) ==
    [i \in 1..Len(spaceLayers) |-> sublayerVarOf(spaceLayers[i].layerKey)]

\* a reset list that knows space_mod and the first sublayer only
clearAll_FirstOnly(spaceLayers) ==
    LET clear(v) == toSetVar(v, 0)
    IN <<toSetVar(spaceModVar, 0)>>
           \o SeqMap(clear, SubSeq(allSublayerVars(spaceLayers), 1,
                                Min(1, Len(spaceLayers))))

clearAll(spaceLayers) ==
    LET clear(v) == toSetVar(v, 0)
    IN <<toSetVar(spaceModVar, 0)>> \o SeqMap(clear, allSublayerVars(spaceLayers))

stickyOff ==
    <<toStickyModifier(LShift, "off"), toStickyModifier(LOpt, "off"),
      toStickyModifier(LCmd, "off"), toStickyModifier(LCtrl, "off")>>

\* tap-hold rules with no guard against the space layer
generateTapHoldRules_Unguarded(tapHoldKeys, spaceLayers) ==
    LET ruleOf(config) ==
            tapHold([TapHoldOpts(config.key) EXCEPT
                        !.alone = <<toKey(config.key, TRUE)>>,
                        !.hold = config.hold,
                        !.timeoutMs = config.timeoutMs,
                        !.thresholdMs = config.thresholdMs])
    IN Flatten(SeqMap(ruleOf, tapHoldKeys))

\* tap-hold rules guarded against space_mod only
generateTapHoldRules_ModGuard(tapHoldKeys, spaceLayers) ==
    LET guarded(m) == [m EXCEPT !.conditions = @ \o <<unlessVar(spaceModVar, 1)>>]
        ruleOf(config) ==
            SeqMap(guarded,
                   tapHold([TapHoldOpts(config.key) EXCEPT
                               !.alone = <<toKey(config.key, TRUE)>>,
                               !.hold = config.hold,
                               !.timeoutMs = config.timeoutMs,
                               !.thresholdMs = config.thresholdMs]))
    IN Flatten(SeqMap(ruleOf, tapHoldKeys))

\* TapHoldConfig entries are [key, hold, timeoutMs, thresholdMs]
generateTapHoldRules(tapHoldKeys, spaceLayers) ==
    LET guard(v) == unlessVar(v, 1)
        guards == <<unlessVar(spaceModVar, 1)>>
                      \o SeqMap(guard, allSublayerVars(spaceLayers))
        guarded(m) == [m EXCEPT !.conditions = @ \o guards]
        ruleOf(config) ==
            SeqMap(guarded,
                   tapHold([TapHoldOpts(config.key) EXCEPT
                               !.alone = <<toKey(config.key, TRUE)>>,
                               !.hold = config.hold,
                               !.timeoutMs = config.timeoutMs,
                               !.thresholdMs = config.thresholdMs]))
    IN Flatten(SeqMap(ruleOf, tapHoldKeys))

\* a space manipulator whose tap clears the variables and sends no spacebar
spaceManipulator_NoTapKey(spaceLayers) ==
    [map("spacebar") EXCEPT
        !.to_if_alone = clearAll(spaceLayers),
        !.to_if_held_down = <<toSetVar(spaceModVar, 1)>>,
        !.to_after_key_up = clearAll(spaceLayers) \o stickyOff,
        !.has_delayed = TRUE,
        !.to_if_invoked = <<>>,
        !.to_if_canceled = <<toKey("spacebar", FALSE)>> \o clearAll(spaceLayers),
        !.alone_timeout = SpaceMs,
        !.held_threshold = SpaceMs]

\* a spacebar manipulator whose key-up leaves the sticky modifiers
spaceManipulator_KeepSticky(spaceLayers) ==
    [map("spacebar") EXCEPT
        !.to_if_alone = <<toKey("spacebar", TRUE)>> \o clearAll(spaceLayers),
        !.to_if_held_down = <<toSetVar(spaceModVar, 1)>>,
        !.to_after_key_up = clearAll(spaceLayers),
        !.has_delayed = TRUE,
        !.to_if_invoked = <<>>,
        !.to_if_canceled = <<toKey("spacebar", FALSE)>> \o clearAll(spaceLayers),
        !.alone_timeout = SpaceMs,
        !.held_threshold = SpaceMs]

spaceManipulator(spaceLayers) ==
    [map("spacebar") EXCEPT
        !.to_if_alone = <<toKey("spacebar", TRUE)>> \o clearAll(spaceLayers),
        !.to_if_held_down = <<toSetVar(spaceModVar, 1)>>,
        !.to_after_key_up = clearAll(spaceLayers) \o stickyOff,
        !.has_delayed = TRUE,
        !.to_if_invoked = <<>>,
        !.to_if_canceled = <<toKey("spacebar", FALSE)>> \o clearAll(spaceLayers),
        !.alone_timeout = SpaceMs,
        !.held_threshold = SpaceMs]

\* releaseLayer = true when the descriptor omits it
releaseLayerOf(layer) ==
    IF layer.releaseLayer = <<>> THEN TRUE ELSE layer.releaseLayer[1]

\* an activation that does not ask for space_mod
sublayerActivation_Unguarded(layer) ==
    [map(layer.layerKey) EXCEPT
        !.to = <<toSetVar(sublayerVarOf(layer.layerKey), 1),
                 toSetVar(spaceModVar, 0)>>]

\* an activation that sets the sublayer variable and leaves space_mod alone
sublayerActivation_KeepMod(layer) ==
    [map(layer.layerKey) EXCEPT
        !.conditions = <<ifVar(spaceModVar, 1)>>,
        !.to = <<toSetVar(sublayerVarOf(layer.layerKey), 1)>>]

sublayerActivation(layer) ==
    [map(layer.layerKey) EXCEPT
        !.conditions = <<ifVar(spaceModVar, 1)>>,
        !.to = <<toSetVar(sublayerVarOf(layer.layerKey), 1),
                 toSetVar(spaceModVar, 0)>>]

modMap(stickyModifier) ==
    CASE stickyModifier = "shift" -> LShift
      [] stickyModifier = "option" -> LOpt
      [] stickyModifier = "command" -> LCmd
      [] stickyModifier = "control" -> LCtrl

\* a mapping that releases the sublayer whatever releaseLayer says
sublayerMapping_AlwaysRelease(layer, config) ==
    LET sublayerVar == sublayerVarOf(layer.layerKey)
        action ==
            IF config.path # "" THEN <<cmd("open '" \o config.path \o "'")>>
            ELSE IF config.command # "" THEN <<cmd(config.command)>>
            ELSE IF config.stickyModifier # ""
                 THEN <<toStickyModifier(modMap(config.stickyModifier), "toggle")>>
            ELSE IF config.key # "" THEN <<toKey(config.key, FALSE)>>
            ELSE <<>>
    IN [map(config.from) EXCEPT
           !.conditions = <<ifVar(sublayerVar, 1)>>,
           !.to = action \o <<toSetVar(sublayerVar, 0)>>]

\* a mapping that runs its action and never releases the sublayer
sublayerMapping_NoRelease(layer, config) ==
    LET action ==
            IF config.path # "" THEN <<cmd("open '" \o config.path \o "'")>>
            ELSE IF config.command # "" THEN <<cmd(config.command)>>
            ELSE IF config.key # "" THEN <<toKey(config.key, FALSE)>>
            ELSE <<>>
    IN [map(config.from) EXCEPT
           !.conditions = <<ifVar(sublayerVarOf(layer.layerKey), 1)>>,
           !.to = action]

\* a mapping that hands the layer back to space_mod when it releases
sublayerMapping_Rearm(layer, config) ==
    LET sublayerVar == sublayerVarOf(layer.layerKey)
        action ==
            IF config.path # "" THEN <<cmd("open '" \o config.path \o "'")>>
            ELSE IF config.command # "" THEN <<cmd(config.command)>>
            ELSE IF config.stickyModifier # ""
                 THEN <<toStickyModifier(modMap(config.stickyModifier), "toggle")>>
            ELSE IF config.key # "" THEN <<toKey(config.key, FALSE)>>
            ELSE <<>>
        release ==
            IF releaseLayerOf(layer) /\ config.stickyModifier = ""
            THEN <<toSetVar(sublayerVar, 0), toSetVar(spaceModVar, 1)>> ELSE <<>>
    IN [map(config.from) EXCEPT
           !.conditions = <<ifVar(sublayerVar, 1)>>,
           !.to = action \o release]

\* a mapping that asks for no sublayer
sublayerMapping_Unguarded(layer, config) ==
    LET sublayerVar == sublayerVarOf(layer.layerKey)
        action ==
            IF config.path # "" THEN <<cmd("open '" \o config.path \o "'")>>
            ELSE IF config.command # "" THEN <<cmd(config.command)>>
            ELSE IF config.stickyModifier # ""
                 THEN <<toStickyModifier(modMap(config.stickyModifier), "toggle")>>
            ELSE IF config.key # "" THEN <<toKey(config.key, FALSE)>>
            ELSE <<>>
        release ==
            IF releaseLayerOf(layer) /\ config.stickyModifier = ""
            THEN <<toSetVar(sublayerVar, 0)>> ELSE <<>>
    IN [map(config.from) EXCEPT !.to = action \o release]

\* a mapping that runs the action of every field it was given
sublayerMapping_EveryField(layer, config) ==
    LET sublayerVar == sublayerVarOf(layer.layerKey)
        action ==
            (IF config.path # "" THEN <<cmd("open '" \o config.path \o "'")>>
             ELSE <<>>)
            \o (IF config.command # "" THEN <<cmd(config.command)>> ELSE <<>>)
            \o (IF config.stickyModifier # ""
                THEN <<toStickyModifier(modMap(config.stickyModifier), "toggle")>>
                ELSE <<>>)
            \o (IF config.key # "" THEN <<toKey(config.key, FALSE)>> ELSE <<>>)
        release ==
            IF releaseLayerOf(layer) /\ config.stickyModifier = ""
            THEN <<toSetVar(sublayerVar, 0)>> ELSE <<>>
    IN [map(config.from) EXCEPT
           !.conditions = <<ifVar(sublayerVar, 1)>>,
           !.to = action \o release]

\* a mapping is [from, path, command, key, stickyModifier, passModifiers];
\* "" is a field that was not given
sublayerMapping(layer, config) ==
    LET sublayerVar == sublayerVarOf(layer.layerKey)
        action ==
            IF config.path # "" THEN <<cmd("open '" \o config.path \o "'")>>
            ELSE IF config.command # "" THEN <<cmd(config.command)>>
            ELSE IF config.stickyModifier # ""
                 THEN <<toStickyModifier(modMap(config.stickyModifier), "toggle")>>
            ELSE IF config.key # "" THEN <<toKey(config.key, FALSE)>>
            ELSE <<>>
        release ==
            IF releaseLayerOf(layer) /\ config.stickyModifier = ""
            THEN <<toSetVar(sublayerVar, 0)>> ELSE <<>>
    IN [map(config.from) EXCEPT
           !.conditions = <<ifVar(sublayerVar, 1)>>,
           !.to = action \o release]

sublayerRule(layer) ==
    LET mapping(config) == sublayerMapping(layer, config)
    IN <<sublayerActivation(layer)>> \o SeqMap(mapping, layer.mappings)

generateSpaceLayerRules(spaceLayers) ==
    <<spaceManipulator(spaceLayers)>> \o Flatten(SeqMap(sublayerRule, spaceLayers))

otherVars ==
    <<"caps_lock_pressed", "command_q_pressed", "ctrl_opt_esc_first", "cmd_d_ready">>

\* an escape rule that clears the variables and leaves the sticky modifiers
generateEscapeRule_NoSticky(spaceLayers) ==
    LET clear(v) == toSetVar(v, 0)
    IN <<[map("escape") EXCEPT
            !.to = <<toKey("escape", FALSE)>> \o clearAll(spaceLayers)
                       \o SeqMap(clear, otherVars)]>>

\* an escape rule that clears space_mod and the static variables only
generateEscapeRule_ModOnly(spaceLayers) ==
    LET clear(v) == toSetVar(v, 0)
    IN <<[map("escape") EXCEPT
            !.to = <<toKey("escape", FALSE), toSetVar(spaceModVar, 0)>>
                       \o SeqMap(clear, otherVars) \o stickyOff]>>

generateEscapeRule(spaceLayers) ==
    LET clear(v) == toSetVar(v, 0)
    IN <<[map("escape") EXCEPT
            !.to = <<toKey("escape", FALSE)>> \o clearAll(spaceLayers)
                       \o SeqMap(clear, otherVars) \o stickyOff]>>

----------------------------------------------------------------------------
(* index.ts: the rules written out by hand *)

\* a key with its mandatory modifiers, as one key identity
Chord(key, mods) == mods \o "+" \o key
CmdQ == Chord("q", "command")
CtrlOptEsc == Chord("escape", "left_control,left_option")
CmdD == Chord("d", "command")

\* the two bundle identifiers the Antinote rule is made for
AntinotePattern == "^com.chabomakers.Antinote-setapp$|^com.chabomakers.Antinote$"
AntinoteApps == {"com.chabomakers.Antinote-setapp", "com.chabomakers.Antinote"}
\* the applications a bundle-identifier matcher accepts
Matching(pattern) == IF pattern = AntinotePattern THEN AntinoteApps ELSE {pattern}

KillUnresponsive == cmd("/Users/jason/Scripts/Metascripts/kill_unresponsive.jxa")

\* a caps lock rule that counts in its variable
capsLockRule_Counting ==
    <<[map("caps_lock") EXCEPT
          !.to = <<toSetVar("caps_lock_pressed", 2), toKey(LCmd, FALSE)>>,
          !.to_after_key_up = <<toSetVar("caps_lock_pressed", 0)>>,
          !.to_if_alone = <<toKey("f15", FALSE)>>,
          !.description = "CAPS - HSLAUNCHER (alone), HYPER (hold)"],
      [map(Chord("caps_lock", "left_shift")) EXCEPT
          !.to = <<toKey(LShift, FALSE)>>,
          !.description = "CAPS + Shift = SUPER"],
      [map(Chord("caps_lock", "left_control")) EXCEPT
          !.to = <<toKey(LCmd, FALSE)>>,
          !.description = "CAPS + Ctrl = MEH"]>>

\* CAPS - HSLAUNCHER (alone), HYPER (hold), SUPER (with shift), MEH (with ctrl)
capsLockRule ==
    <<[map("caps_lock") EXCEPT
          !.to = <<toSetVar("caps_lock_pressed", 1), toKey(LCmd, FALSE)>>,
          !.to_after_key_up = <<toSetVar("caps_lock_pressed", 0)>>,
          !.to_if_alone = <<toKey("f15", FALSE)>>,
          !.description = "CAPS - HSLAUNCHER (alone), HYPER (hold)"],
      [map(Chord("caps_lock", "left_shift")) EXCEPT
          !.to = <<toKey(LShift, FALSE)>>,
          !.description = "CAPS + Shift = SUPER"],
      [map(Chord("caps_lock", "left_control")) EXCEPT
          !.to = <<toKey(LCmd, FALSE)>>,
          !.description = "CAPS + Ctrl = MEH"]>>

\* a CMD-Q rule whose quitting manipulator does not ask for the variable
cmdQRule_Unconditioned ==
    <<[map(CmdQ) EXCEPT
          !.to = <<toKey(CmdQ, FALSE), toSetVar("command_q_pressed", 0)>>],
      [map(CmdQ) EXCEPT
          !.delay = 3,
          !.to = <<toSetVar("command_q_pressed", 1)>>,
          !.has_delayed = TRUE,
          !.to_if_invoked = <<toSetVar("command_q_pressed", 0)>>,
          !.to_if_canceled = <<toSetVar("command_q_pressed", 0)>>]>>

\* CMD-Q requires double-tap (300ms window)
cmdQRule ==
    <<[map(CmdQ) EXCEPT
          !.conditions = <<ifVar("command_q_pressed", 1)>>,
          !.to = <<toKey(CmdQ, FALSE), toSetVar("command_q_pressed", 0)>>],
      [map(CmdQ) EXCEPT
          !.delay = 3,
          !.to = <<toSetVar("command_q_pressed", 1)>>,
          !.has_delayed = TRUE,
          !.to_if_invoked = <<toSetVar("command_q_pressed", 0)>>,
          !.to_if_canceled = <<toSetVar("command_q_pressed", 0)>>]>>

\* CTRL+OPT+ESC - Activity Monitor (tap) or Force Quit (tap-tap)
ctrlOptEscRule ==
    <<[map(CtrlOptEsc) EXCEPT
          !.conditions = <<ifVar("ctrl_opt_esc_first", 1)>>,
          !.to = <<toSetVar("ctrl_opt_esc_first", 0),
                   toKey(Chord("escape", "command,option"), FALSE)>>],
      [map(CtrlOptEsc) EXCEPT
          !.delay = 3,
          !.to = <<toSetVar("ctrl_opt_esc_first", 1)>>,
          !.has_delayed = TRUE,
          !.to_if_invoked = <<toSetVar("ctrl_opt_esc_first", 0)>>,
          !.to_if_canceled =
              <<KillUnresponsive, toSetVar("ctrl_opt_esc_first", 0)>>]>>

\* an Antinote rule whose first-press manipulator asks for the variable at 1
antinoteRule_FirstNeedsReady ==
    <<[map(CmdD) EXCEPT
          !.conditions = <<ifApp(AntinotePattern, FALSE), ifVar("cmd_d_ready", 1)>>,
          !.to = <<toKey(CmdD, FALSE), toSetVar("cmd_d_ready", 0)>>],
      [map(CmdD) EXCEPT
          !.conditions = <<ifApp(AntinotePattern, FALSE), ifVar("cmd_d_ready", 1)>>,
          !.to = <<toSetVar("cmd_d_ready", 1)>>,
          !.has_delayed = TRUE,
          !.to_if_invoked = <<toSetVar("cmd_d_ready", 0)>>,
          !.to_if_canceled = <<toSetVar("cmd_d_ready", 0)>>]>>

\* ANTINOTE - CMD+D+D to delete note
antinoteRule ==
    <<[map(CmdD) EXCEPT
          !.conditions = <<ifApp(AntinotePattern, FALSE), ifVar("cmd_d_ready", 1)>>,
          !.to = <<toKey(CmdD, FALSE), toSetVar("cmd_d_ready", 0)>>],
      [map(CmdD) EXCEPT
          !.conditions = <<ifApp(AntinotePattern, FALSE), ifVar("cmd_d_ready", 0)>>,
          !.to = <<toSetVar("cmd_d_ready", 1)>>,
          !.has_delayed = TRUE,
          !.to_if_invoked = <<toSetVar("cmd_d_ready", 0)>>,
          !.to_if_canceled = <<toSetVar("cmd_d_ready", 0)>>]>>

----------------------------------------------------------------------------
(* The configurations the rule set is generated from *)

\* number of sublayers in spaceLayers
MaxLayers == 2

NoMapping ==
    [from |-> "", path |-> "", command |-> "", key |-> "",
     stickyModifier |-> "", passModifiers |-> FALSE]

\* index.ts spaceLayers: Downloads (auto-release) and Cursor (releaseLayer: false)
LayerD ==
    [layerKey |-> "d", layerName |-> "Downloads", releaseLayer |-> <<>>,
     mappings |-> <<[NoMapping EXCEPT !.from = "p", !.path = "PDFs"]>>]
LayerC ==
    [layerKey |-> "c", layerName |-> "Cursor", releaseLayer |-> <<FALSE>>,
     mappings |-> <<[NoMapping EXCEPT !.from = "p", !.key = "page_up",
                                      !.passModifiers = TRUE]>>]
LayerPool == {LayerD, LayerC}

SpaceLayerLists ==
    {l \in UNION {[1..n -> LayerPool] : n \in 0..MaxLayers} :
        \A i, j \in DOMAIN l : i # j => l[i].layerKey # l[j].layerKey}

\* index.ts tapHoldKeys: key d with its hold action and optional timing
TapHoldKeyLists ==
    {<<[key |-> "d", hold |-> <<cmd("hold d")>>, timeoutMs |-> t, thresholdMs |-> h]>> :
        t \in {Undef, 2}, h \in {Undef, 2}}

\* a varTapTapHold unit on left_command
VarTapOpts ==
    {[VarTapTapHoldOpts("left_command", "lcmd_first_tap") EXCEPT
         !.aloneEvents = a, !.holdEvents = h,
         !.tapTapEvents = <<cmd("tap-tap")>>,
         !.tapTapHoldEvents = <<cmd("tap-tap-hold")>>] :
        a \in {Absent, <<cmd("alone")>>}, h \in {Absent, <<cmd("hold")>>}}

Keys == {"spacebar", "escape", "d", "c", "p", "left_command", "f"}

\* a configuration: the arguments of the generators, the frontmost
\* application and the keys the user presses
Configs ==
    [spaceLayers : SpaceLayerLists, tapHoldKeys : TapHoldKeyLists,
     varTap : VarTapOpts, app : {"com.apple.finder"}, keys : SUBSET Keys,
     tapUnits : {<<>>}, special : {FALSE}]

DefaultTiming(c) ==
    c.tapHoldKeys[1].timeoutMs = Undef /\ c.tapHoldKeys[1].thresholdMs = Undef
PlainVarTap(c) ==
    c.varTap.aloneEvents = Absent /\ c.varTap.holdEvents = Absent

FullVarTap(c) ==
    c.varTap.aloneEvents # Absent /\ c.varTap.holdEvents # Absent

\* the keys the layer manipulators of the configuration are made for
LayerKeys(c) ==
    {"spacebar", "escape", "p"}
        \cup {c.tapHoldKeys[i].key : i \in DOMAIN c.tapHoldKeys}
        \cup {c.spaceLayers[i].layerKey : i \in DOMAIN c.spaceLayers}

\* the space layer with every list of sublayers and its keys pressed; beside
\* both sublayers, also the multi-stage key pressed, with and without its
\* single-tap lists
LayerConfigs ==
    {c \in Configs :
        /\ DefaultTiming(c)
        /\ \/ PlainVarTap(c) /\ c.keys = LayerKeys(c)
           \/ /\ PlainVarTap(c) \/ FullVarTap(c)
              /\ c.spaceLayers = <<LayerD, LayerC>>
              /\ c.keys = LayerKeys(c) \cup {c.varTap.key}}
\* the tap-hold unit of d with every timing, beside the Downloads sublayer
TapHoldConfigs ==
    {c \in Configs : /\ c.spaceLayers = <<LayerD>>
                     /\ PlainVarTap(c)
                     /\ c.keys = {"d", "p", "spacebar"}}
\* the multi-stage unit of left_command with every choice of event lists
VarTapConfigs ==
    {c \in Configs : /\ c.spaceLayers = <<LayerD>>
                     /\ DefaultTiming(c)
                     /\ c.keys = {"left_command", "p", "escape"}}

\* one mapping of each kind on the key p
MappingKinds ==
    {[NoMapping EXCEPT !.from = "p", !.path = "PDFs"],
     [NoMapping EXCEPT !.from = "p", !.command = "open -a Safari"],
     [NoMapping EXCEPT !.from = "p", !.key = "page_up"],
     [NoMapping EXCEPT !.from = "p", !.stickyModifier = "shift"]}

\* releaseLayer omitted, true, false
ReleaseChoices == {<<>>, <<TRUE>>, <<FALSE>>}

\* one sublayer on d with one mapping, of every kind and persistence policy
MappingConfigs ==
    {[spaceLayers |-> <<[layerKey |-> "d", layerName |-> "Mapped",
                         releaseLayer |-> r, mappings |-> <<config>>]>>,
      tapHoldKeys |-> <<[key |-> "d", hold |-> <<cmd("hold d")>>,
                         timeoutMs |-> Undef, thresholdMs |-> Undef]>>,
      varTap |-> [VarTapTapHoldOpts("left_command", "lcmd_first_tap") EXCEPT
                     !.tapTapEvents = <<cmd("tap-tap")>>,
                     !.tapTapHoldEvents = <<cmd("tap-tap-hold")>>],
      app |-> "com.apple.finder",
      keys |-> {"spacebar", "d", "p", "escape"},
      tapUnits |-> <<>>, special |-> FALSE] : config \in MappingKinds, r \in ReleaseChoices}

\* frontmost applications, and the overrides a tap-hold unit may carry
Apps == {"net.sourceforge.skim-app.skim", "com.apple.Safari", "com.apple.finder"}
OverrideChoices ==
    {[AppOverride("net.sourceforge.skim-app.skim") EXCEPT
         !.alone = <<cmd("alone in skim")>>, !.hold = <<cmd("hold in skim")>>],
     [AppOverride("com.apple.Safari") EXCEPT
         !.alone = <<cmd("alone in Safari")>>, !.hold = <<cmd("hold in Safari")>>],
     [AppOverride("net.sourceforge.skim-app.skim") EXCEPT
         !.unless = TRUE,
         !.alone = <<cmd("alone out of skim")>>, !.hold = <<cmd("hold out of skim")>>]}

\* number of entries in appOverrides
MaxOverrides == 2
OverrideLists == UNION {[1..n -> OverrideChoices] : n \in 0..MaxOverrides}

\* a tap-hold unit on f built directly with tapHold: with or without its
\* alone/hold pair, with every list of overrides, under every application
BuilderConfigs ==
    {[spaceLayers |-> <<>>,
      tapHoldKeys |-> <<[key |-> "d", hold |-> <<cmd("hold d")>>,
                         timeoutMs |-> Undef, thresholdMs |-> Undef]>>,
      varTap |-> [VarTapTapHoldOpts("left_command", "lcmd_first_tap") EXCEPT
                     !.tapTapEvents = <<cmd("tap-tap")>>,
                     !.tapTapHoldEvents = <<cmd("tap-tap-hold")>>],
      app |-> app,
      keys |-> {"f", "p"},
      tapUnits |-> <<[TapHoldOpts("f") EXCEPT
                         !.alone = pair[1], !.hold = pair[2],
                         !.appOverrides = ovs]>>,
      special |-> FALSE] :
        app \in Apps, ovs \in OverrideLists,
        pair \in {<<<<toKey("f", TRUE)>>, <<cmd("hold f")>>>>, <<Absent, Absent>>}}

\* the keys of the rules written out by hand
SpecialKeys == {CmdQ, CtrlOptEsc, CmdD, "caps_lock"}
AllKeys == Keys \cup SpecialKeys

\* the rules written out by hand beside the Downloads sublayer: the three
\* double-tap chords pressed in Antinote and out of it, and caps lock,
\* spacebar, d and left_command pressed beside cmd+q and cmd+d
SpecialConfigs ==
    {[spaceLayers |-> <<LayerD>>,
      tapHoldKeys |-> <<[key |-> "d", hold |-> <<cmd("hold d")>>,
                         timeoutMs |-> Undef, thresholdMs |-> Undef]>>,
      varTap |-> [VarTapTapHoldOpts("left_command", "lcmd_first_tap") EXCEPT
                     !.tapTapEvents = <<cmd("tap-tap")>>,
                     !.tapTapHoldEvents = <<cmd("tap-tap-hold")>>],
      app |-> ak[1],
      keys |-> ak[2],
      tapUnits |-> <<>>, special |-> TRUE] :
        ak \in {"com.apple.finder", "com.chabomakers.Antinote"}
                      \X {{CmdQ, CtrlOptEsc, CmdD, "p"}}
                  \cup {<<"com.chabomakers.Antinote-setapp",
                           {CmdQ, CmdD, "caps_lock", "d", "spacebar", "left_command"}>>}}

\* a sublayer that toggles sticky shift, with and without auto-release,
\* beside the multi-stage unit of left_command
ReleaseConfigs ==
    {[spaceLayers |-> <<[layerKey |-> "d", layerName |-> "Mapped",
                         releaseLayer |-> r,
                         mappings |-> <<[NoMapping EXCEPT
                                            !.from = "p",
                                            !.stickyModifier = "shift"]>>]>>,
      tapHoldKeys |-> <<[key |-> "d", hold |-> <<cmd("hold d")>>,
                         timeoutMs |-> Undef, thresholdMs |-> Undef]>>,
      varTap |-> [VarTapTapHoldOpts("left_command", "lcmd_first_tap") EXCEPT
                     !.tapTapEvents = <<cmd("tap-tap")>>,
                     !.tapTapHoldEvents = <<cmd("tap-tap-hold")>>],
      app |-> "com.apple.finder",
      keys |-> {"spacebar", "d", "p", "left_command"},
      tapUnits |-> <<>>, special |-> FALSE] : r \in ReleaseChoices}

\* a multi-stage unit on a key of the Downloads sublayer: its activation
\* key d or its mapped key p
OverlapConfigs ==
    {[spaceLayers |-> <<LayerD>>,
      tapHoldKeys |-> <<[key |-> "d", hold |-> <<cmd("hold d")>>,
                         timeoutMs |-> Undef, thresholdMs |-> Undef]>>,
      varTap |-> [VarTapTapHoldOpts(k, k \o "_first_tap") EXCEPT
                     !.tapTapEvents = <<cmd("tap-tap")>>,
                     !.tapTapHoldEvents = <<cmd("tap-tap-hold")>>],
      app |-> "com.apple.finder",
      keys |-> {"spacebar", "d", "p"},
      tapUnits |-> <<>>, special |-> FALSE] : k \in {"d", "p"}}

\* two sublayers with separate alphabets, d mapping p and c mapping f, the
\* first with every persistence policy, beside tap-hold units on d and f
FrameConfigs ==
    {[spaceLayers |-> <<[LayerD EXCEPT !.releaseLayer = r],
                        [layerKey |-> "c", layerName |-> "Cursor",
                         releaseLayer |-> <<FALSE>>,
                         mappings |-> <<[NoMapping EXCEPT
                                            !.from = "f",
                                            !.key = "page_down"]>>]>>,
      tapHoldKeys |-> <<[key |-> "d", hold |-> <<cmd("hold d")>>,
                         timeoutMs |-> Undef, thresholdMs |-> Undef],
                        [key |-> "f", hold |-> <<cmd("hold f")>>,
                         timeoutMs |-> Undef, thresholdMs |-> Undef]>>,
      varTap |-> [VarTapTapHoldOpts("left_command", "lcmd_first_tap") EXCEPT
                     !.tapTapEvents = <<cmd("tap-tap")>>,
                     !.tapTapHoldEvents = <<cmd("tap-tap-hold")>>],
      app |-> "com.apple.finder",
      keys |-> {"spacebar", "d", "c", "p", "f", "escape"},
      tapUnits |-> <<>>, special |-> FALSE] : r \in ReleaseChoices}

\* a tap-hold unit on f with one override for Skim that has an alone list
\* of its own: with and without a cancel list, at the top and in the override
CancelConfigs ==
    {[spaceLayers |-> <<>>,
      tapHoldKeys |-> <<[key |-> "d", hold |-> <<cmd("hold d")>>,
                         timeoutMs |-> Undef, thresholdMs |-> Undef]>>,
      varTap |-> [VarTapTapHoldOpts("left_command", "lcmd_first_tap") EXCEPT
                     !.tapTapEvents = <<cmd("tap-tap")>>,
                     !.tapTapHoldEvents = <<cmd("tap-tap-hold")>>],
      app |-> app,
      keys |-> {"f", "p"},
      tapUnits |-> <<[TapHoldOpts("f") EXCEPT
                         !.alone = alone, !.hold = <<cmd("hold f")>>,
                         !.cancel = cancel,
                         !.appOverrides =
                             <<[AppOverride("net.sourceforge.skim-app.skim") EXCEPT
                                   !.alone = <<cmd("alone in skim")>>,
                                   !.cancel = ovCancel]>>]>>,
      special |-> FALSE] :
        app \in {"net.sourceforge.skim-app.skim", "com.apple.finder"},
        alone \in {Absent, <<toKey("f", TRUE)>>},
        cancel \in {Absent, <<cmd("canceled")>>},
        ovCancel \in {Absent, <<cmd("canceled in skim")>>}}

\* a tap-hold unit on f that sends a consumer key: by its virtual name when
\* tapped, by the Dictation helper when held
ConsumerConfigs ==
    {[spaceLayers |-> <<>>,
      tapHoldKeys |-> <<[key |-> "d", hold |-> <<cmd("hold d")>>,
                         timeoutMs |-> Undef, thresholdMs |-> Undef]>>,
      varTap |-> [VarTapTapHoldOpts("left_command", "lcmd_first_tap") EXCEPT
                     !.tapTapEvents = <<cmd("tap-tap")>>,
                     !.tapTapHoldEvents = <<cmd("tap-tap-hold")>>],
      app |-> "com.apple.finder",
      keys |-> {"f", "p"},
      tapUnits |-> <<[TapHoldOpts("f") EXCEPT
                         !.alone = <<consumerKey(virtualName)>>,
                         !.hold = <<vkConsumerDictation>>]>>,
      special |-> FALSE] : virtualName \in DOMAIN CONSUMER_ALIAS}

\* one sublayer on d with one mapping on p: every choice of which of path,
\* command, stickyModifier and key are given, with every persistence policy
PrecedenceConfigs ==
    {[spaceLayers |-> <<[layerKey |-> "d", layerName |-> "Mapped",
                         releaseLayer |-> r,
                         mappings |-> <<[NoMapping EXCEPT
                                            !.from = "p",
                                            !.path = f[1], !.command = f[2],
                                            !.stickyModifier = f[3],
                                            !.key = f[4]]>>]>>,
      tapHoldKeys |-> <<[key |-> "d", hold |-> <<cmd("hold d")>>,
                         timeoutMs |-> Undef, thresholdMs |-> Undef]>>,
      varTap |-> [VarTapTapHoldOpts("left_command", "lcmd_first_tap") EXCEPT
                     !.tapTapEvents = <<cmd("tap-tap")>>,
                     !.tapTapHoldEvents = <<cmd("tap-tap-hold")>>],
      app |-> "com.apple.finder",
      keys |-> {"spacebar", "d", "p"},
      tapUnits |-> <<>>, special |-> FALSE] :
        f \in {"", "PDFs"} \X {"", "open -a Safari"} \X {"", "shift"}
                  \X {"", "page_up"},
        r \in ReleaseChoices}

\* key-downs followed from rest: a sticky sublayer needs one more, for a
\* second mapped press, and so does the multi-stage key, for a third press
\* with another key down
Presses(c) == IF c \in MappingConfigs \cup VarTapConfigs THEN MaxSeq + 1 ELSE MaxSeq

\* index.ts rules: the tap-hold rules, the space layer, the escape rule; the
\* multi-stage unit and the tap-hold units built directly are registered
\* after them
Profile(c) ==
    generateTapHoldRules(c.tapHoldKeys, c.spaceLayers)
        \o (IF c.special THEN capsLockRule ELSE <<>>)
        \o generateSpaceLayerRules(c.spaceLayers)
        \o (IF c.special THEN cmdQRule \o ctrlOptEscRule ELSE <<>>)
        \o generateEscapeRule(c.spaceLayers)
        \o (IF c.special THEN antinoteRule ELSE <<>>)
        \o varTapTapHold(c.varTap)
        \o Flatten(SeqMap(tapHold, c.tapUnits))

----------------------------------------------------------------------------
(* The engine: variables, conditions, action lists *)

\* a variable that was never written reads as 0
Read(st, n) == IF n \in DOMAIN st THEN st[n] ELSE 0
Write(st, n, v) == [x \in DOMAIN st \cup {n} |-> IF x = n THEN v ELSE st[x]]

Holds(c, st, app) ==
    CASE c.type = "variable_if" -> Read(st, c.name) = c.value
      [] c.type = "variable_unless" -> Read(st, c.name) # c.value
      [] c.type = "frontmost_application_if" -> app \in Matching(c.name)
      [] c.type = "frontmost_application_unless" -> app \notin Matching(c.name)

Eligible(m, key, st, app) ==
    /\ m.from = key
    /\ \A i \in DOMAIN m.conditions : Holds(m.conditions[i], st, app)

\* the first eligible manipulator in evaluation order, 0 when there is none
Select(rs, key, st, app) ==
    LET hits == {i \in DOMAIN rs : Eligible(rs[i], key, st, app)}
    IN IF hits = {} THEN 0 ELSE CHOOSE i \in hits : \A j \in hits : i <= j

\* set_variable: a variable at 0 is the same as one never written
SetVar(st, n, v) ==
    IF v = 0 THEN [x \in DOMAIN st \ {n} |-> st[x]] ELSE Write(st, n, v)

\* the sticky state of a modifier is kept beside the variables: 1 is on
StickyVar(m) == "sticky " \o m
Sticky(st, m) == Read(st, StickyVar(m)) = 1

\* the state after one event of an action list
ApplyEvent(e, st) ==
    CASE e.type = "set_variable" -> SetVar(st, e.name, e.value)
      [] e.type = "sticky_modifier" ->
            SetVar(st, StickyVar(e.name),
                   CASE e.mode = "on" -> 1
                     [] e.mode = "off" -> 0
                     [] e.mode = "toggle" -> 1 - Read(st, StickyVar(e.name)))
      [] OTHER -> st

\* the state after an action list has run
RECURSIVE Apply(_, _)
Apply(list, st) ==
    IF list = <<>> THEN st ELSE Apply(Tail(list), ApplyEvent(Head(list), st))

\* what an event sends: a keystroke or a shell command
Sends(e) == e.type \in {"key_code", "consumer_key_code", "shell_command"}
Tag(e) ==
    CASE e.type = "key_code" -> "key " \o e.name
      [] e.type = "consumer_key_code" -> "consumer " \o e.name
      [] OTHER -> e.name

Count(em, n) == IF n \in DOMAIN em THEN em[n] ELSE 0

RECURSIVE Emit(_, _)
Emit(list, em) ==
    IF list = <<>> THEN em
    ELSE Emit(Tail(list),
              IF Sends(Head(list))
              THEN Write(em, Tag(Head(list)), Count(em, Tag(Head(list))) + 1)
              ELSE em)

Halts(list) == \E i \in DOMAIN list : list[i].halt

AloneTimeout(m) == NumOr(m.alone_timeout, DefaultAloneTimeout)
HeldThreshold(m) == NumOr(m.held_threshold, DefaultHeldThreshold)
Delay(m) == NumOr(m.delay, DefaultDelay)

\* ages past both parameters of a press are not told apart
AgeLimit(rs, m) ==
    IF m = 0 \/ (rs[m].to_if_alone = <<>> /\ rs[m].to_if_held_down = <<>>) THEN 0
    ELSE Max(AloneTimeout(rs[m]), HeldThreshold(rs[m]))

Empty == [x \in {} |-> 0]
NoDelayed == [m |-> 0, left |-> 0]
NoPress ==
    [key |-> "", m |-> 0, age |-> 0, held |-> "none", up |-> TRUE, pre |-> Empty]

AtRest == DOMAIN down = {} /\ delayed.m = 0

InitOn(configs) ==
    /\ cfg \in configs
    /\ rules = Profile(cfg)
    /\ store = Empty
    /\ down = Empty
    /\ cur = NoPress
    /\ delayed = NoDelayed
    /\ emitted = Empty
    /\ seq = 0
    /\ last = "init"

----------------------------------------------------------------------------
(* Steps *)

\* A key goes down.  Conditions are evaluated on the variables at dispatch;
\* the key-down cancels the pending delayed action (its to_if_canceled list
\* runs) and the held-down timer of the previous press; then the to list of
\* the selected manipulator runs.  An unclaimed key (cur.m = 0) passes
\* through as its own keystroke and runs no list.
KeyDown(k) ==
    /\ k \in cfg.keys
    /\ k \notin DOMAIN down
    /\ Cardinality(DOMAIN down) < MaxDown
    /\ AtRest \/ seq < Presses(cfg)
    /\ LET sel == Select(rules, k, store, cfg.app)
           canceled == IF delayed.m # 0 THEN rules[delayed.m].to_if_canceled ELSE <<>>
           toList == IF sel # 0 THEN rules[sel].to ELSE <<>>
           list == canceled \o toList
           schedules == /\ sel # 0
                        /\ rules[sel].has_delayed
                        /\ rules[sel].to_if_invoked \o rules[sel].to_if_canceled # <<>>
       IN /\ store' = Apply(list, store)
          /\ emitted' = Emit(list, IF AtRest THEN Empty ELSE emitted)
          /\ seq' = IF AtRest THEN 1 ELSE seq + 1
          /\ down' = Write(down, k, [m |-> sel, halted |-> FALSE])
          /\ cur' = [key |-> k, m |-> sel, age |-> 0,
                     held |-> IF sel # 0 /\ rules[sel].to_if_held_down # <<>>
                              THEN "pending" ELSE "none",
                     up |-> FALSE, pre |-> store]
          /\ delayed' = IF schedules THEN [m |-> sel, left |-> Delay(rules[sel])]
                        ELSE NoDelayed
    /\ last' = "down"
    /\ UNCHANGED <<cfg, rules>>

\* A key goes up.  to_if_alone runs when no other key went down since and the
\* alone timeout has not elapsed; a halt event in it drops to_after_key_up and
\* the delayed action of the press; otherwise to_after_key_up runs.
KeyUp(k) ==
    /\ k \in DOMAIN down
    /\ LET m == down[k].m
           isCur == cur.key = k
           aloneList == IF m # 0 /\ isCur /\ cur.age < AloneTimeout(rules[m])
                        THEN rules[m].to_if_alone ELSE <<>>
           halted == down[k].halted \/ Halts(aloneList)
           afterList == IF m # 0 /\ ~halted THEN rules[m].to_after_key_up ELSE <<>>
           list == aloneList \o afterList
       IN /\ store' = Apply(list, store)
          /\ emitted' = Emit(list, emitted)
          /\ down' = [x \in DOMAIN down \ {k} |-> down[x]]
          /\ cur' = IF isCur
                    THEN [cur EXCEPT !.up = TRUE,
                                     !.held = IF @ = "pending" THEN "canceled" ELSE @]
                    ELSE cur
          /\ delayed' = IF isCur /\ Halts(aloneList) THEN NoDelayed ELSE delayed
    /\ last' = "up"
    /\ UNCHANGED <<cfg, rules, seq>>

\* The held-down threshold of the current press elapses with the key down.
HeldFire ==
    /\ cur.held = "pending"
    /\ cur.age >= HeldThreshold(rules[cur.m])
    /\ LET list == rules[cur.m].to_if_held_down
       IN /\ store' = Apply(list, store)
          /\ emitted' = Emit(list, emitted)
          /\ down' = IF Halts(list) THEN [down EXCEPT ![cur.key].halted = TRUE] ELSE down
          /\ delayed' = IF Halts(list) THEN NoDelayed ELSE delayed
    /\ cur' = [cur EXCEPT !.held = "fired"]
    /\ last' = "held"
    /\ UNCHANGED <<cfg, rules, seq>>

\* The delay of the pending delayed action elapses with no key-down since.
DelayedInvoke ==
    /\ delayed.m # 0
    /\ delayed.left = 0
    /\ LET list == rules[delayed.m].to_if_invoked
       IN /\ store' = Apply(list, store)
          /\ emitted' = Emit(list, emitted)
    /\ delayed' = NoDelayed
    /\ last' = "invoked"
    /\ UNCHANGED <<cfg, rules, down, cur, seq>>

\* 100 ms pass; a timer that is due fires first.
Tick ==
    /\ ~(cur.held = "pending" /\ cur.age >= HeldThreshold(rules[cur.m]))
    /\ ~(delayed.m # 0 /\ delayed.left = 0)
    /\ LET ages == ~cur.up /\ cur.age < AgeLimit(rules, cur.m)
       IN /\ ages \/ delayed.m # 0
          /\ cur' = IF ages THEN [cur EXCEPT !.age = @ + 1] ELSE cur
          /\ delayed' = IF delayed.m # 0 THEN [delayed EXCEPT !.left = @ - 1]
                        ELSE delayed
    /\ last' = "tick"
    /\ UNCHANGED <<cfg, rules, store, down, emitted, seq>>

Next ==
    \/ \E k \in AllKeys : KeyDown(k)
    \/ \E k \in AllKeys : KeyUp(k)
    \/ HeldFire
    \/ DelayedInvoke
    \/ Tick

Init == InitOn(LayerConfigs)
Spec == Init /\ [][Next]_vars

InitTapHold == InitOn(TapHoldConfigs)
SpecTapHold == InitTapHold /\ [][Next]_vars

InitVarTap == InitOn(VarTapConfigs)
SpecVarTap == InitVarTap /\ [][Next]_vars

\* time passes and a timer that is due fires
Timers == WF_vars(Tick) /\ WF_vars(HeldFire) /\ WF_vars(DelayedInvoke)
SpecVarTapLive == InitVarTap /\ [][Next]_vars /\ Timers

InitMapping == InitOn(MappingConfigs)
SpecMapping == InitMapping /\ [][Next]_vars

InitBuilder == InitOn(BuilderConfigs)
SpecBuilder == InitBuilder /\ [][Next]_vars

InitRelease == InitOn(ReleaseConfigs)
SpecRelease == InitRelease /\ [][Next]_vars

InitOverlap == InitOn(OverlapConfigs)
SpecOverlap == InitOverlap /\ [][Next]_vars

InitSpecial == InitOn(SpecialConfigs)
SpecSpecial == InitSpecial /\ [][Next]_vars

InitFrame == InitOn(FrameConfigs)
SpecFrame == InitFrame /\ [][Next]_vars

InitCancel == InitOn(CancelConfigs)
SpecCancel == InitCancel /\ [][Next]_vars

InitConsumer == InitOn(ConsumerConfigs)
SpecConsumer == InitConsumer /\ [][Next]_vars

InitPrecedence == InitOn(PrecedenceConfigs)
SpecPrecedence == InitPrecedence /\ [][Next]_vars

TypeOK ==
    /\ cfg \in Configs \cup MappingConfigs \cup BuilderConfigs \cup SpecialConfigs
                 \cup ReleaseConfigs \cup OverlapConfigs \cup FrameConfigs
                 \cup CancelConfigs \cup ConsumerConfigs \cup PrecedenceConfigs
    /\ DOMAIN down \subseteq AllKeys
    /\ \A n \in DOMAIN store : store[n] \in {0, 1}
    /\ seq \in 0..Presses(cfg)
    /\ delayed.left \in 0..DefaultDelay

----------------------------------------------------------------------------
(* Names used by the properties *)

LayerVars(c) ==
    {spaceModVar} \cup {sublayerVarOf(c.spaceLayers[i].layerKey) : i \in DOMAIN c.spaceLayers}
SublayerVars(c) == LayerVars(c) \ {spaceModVar}
PersistedVars(c) == LayerVars(c) \cup {c.varTap.firstVar}

\* the manipulators of rules that generateTapHoldRules produced
TapHoldUnits == 1..Len(generateTapHoldRules(cfg.tapHoldKeys, cfg.spaceLayers))

HasLayer(layer) == \E i \in DOMAIN cfg.spaceLayers : cfg.spaceLayers[i] = layer

\* the step just taken was the key-down of k
JustPressed(k) == last = "down" /\ cur.key = k

----------------------------------------------------------------------------
(* C1 *)

\* C1: after the key-down of escape, from any reachable state, space_mod, every
\* sublayer variable and the first-tap variable of the multi-stage key are 0.
C1_GlobalResetClearsAll ==
    JustPressed("escape") => \A n \in PersistedVars(cfg) : Read(store, n) = 0

\* escape was pressed while the first-tap variable was 1
C1_Witness ==
    JustPressed("escape") /\ Read(cur.pre, cfg.varTap.firstVar) = 1

\* escape pressed while a sublayer was active, and while the layer was armed
C1_WitnessSublayer ==
    JustPressed("escape") /\ \E n \in SublayerVars(cfg) : Read(cur.pre, n) = 1
C1_WitnessArmed ==
    JustPressed("escape") /\ Read(cur.pre, spaceModVar) = 1

----------------------------------------------------------------------------
(* C2 *)

ActiveLayerVars == {n \in LayerVars(cfg) : Read(store, n) = 1}

\* a sublayer variable goes from 0 to 1 only in a key-down taken while
\* space_mod is 1, and that step leaves space_mod 0
HandOverStep ==
    \A n \in SublayerVars(cfg) :
        (Read(store, n) # 1 /\ Read(store', n) = 1)
            => /\ Read(store, spaceModVar) = 1
               /\ Read(store', spaceModVar) = 0
               /\ last' = "down"
               /\ sublayerVarOf(cur'.key) = n

\* C2: in every reachable state at most one of space_mod and the sublayer
\* variables is 1, and a sublayer variable is set only by the activation step,
\* which clears space_mod in the same action list.
C2_AtMostOneLayerVar ==
    [](Cardinality(ActiveLayerVars) <= 1) /\ [][HandOverStep]_vars

\* a sublayer key was pressed while armed: its variable is now 1
C2_Witness ==
    /\ last = "down"
    /\ Read(cur.pre, spaceModVar) = 1
    /\ Read(store, sublayerVarOf(cur.key)) = 1

----------------------------------------------------------------------------
(* C3 *)

Guarded(m, n) == \E i \in DOMAIN m.conditions : m.conditions[i] = unlessVar(n, 1)

\* the guards of the tap-hold rules once one more sublayer is declared
ExtendedGuards ==
    \A layer \in LayerPool :
        ~HasLayer(layer) =>
            LET more == generateTapHoldRules(cfg.tapHoldKeys,
                                             Append(cfg.spaceLayers, layer))
            IN \A i \in DOMAIN more :
                  /\ Guarded(more[i], sublayerVarOf(layer.layerKey))
                  /\ \A n \in LayerVars(cfg) : Guarded(more[i], n)

\* C3: every manipulator made by generateTapHoldRules carries
\* variable_unless(n, 1) for space_mod and for every sublayer variable, so none
\* of them is eligible while a layer variable is 1; declaring one more
\* sublayer adds its guard to every one of them.
C3_TapHoldGuardedByEveryLayerVar ==
    /\ \A i \in TapHoldUnits :
          /\ \A n \in LayerVars(cfg) : Guarded(rules[i], n)
          /\ ActiveLayerVars # {} =>
                \A k \in Keys : ~Eligible(rules[i], k, store, cfg.app)
    /\ (last = "down" /\ \E n \in LayerVars(cfg) : Read(cur.pre, n) = 1)
          => cur.m \notin TapHoldUnits
    /\ ExtendedGuards

\* the tap-hold key d was pressed while a sublayer was active, and the
\* tap-hold unit did not take it
C3_Witness ==
    /\ JustPressed("d")
    /\ \E n \in SublayerVars(cfg) : Read(cur.pre, n) = 1
    /\ cur.m \notin TapHoldUnits

----------------------------------------------------------------------------
(* C4 to C7: the multi-stage unit *)

VarTapKey == cfg.varTap.key
Executed(e) == Count(emitted, Tag(e))
ThresholdMs == NumOr(cfg.varTap.thresholdMs, VarTapDefaultMs)

\* the keyboard was at rest, the multi-stage key was pressed, and nothing else
FirstPress == cur.key = VarTapKey /\ seq = 1
\* the multi-stage key was pressed from rest and again while firstVar was 1
SecondPress ==
    cur.key = VarTapKey /\ seq = 2 /\ Read(cur.pre, cfg.varTap.firstVar) = 1
\* the press was just released, before the threshold
ReleasedEarly == last = "up" /\ cur.up /\ cur.age < ThresholdMs
\* the press stayed down past the threshold: its held-down timer has run
HeldPast == cur.age >= ThresholdMs /\ cur.held = "fired"

\* C4: a second press while firstVar is 1 runs tapTapEvents and not
\* tapTapHoldEvents when released before thresholdMs, runs tapTapHoldEvents
\* and not tapTapEvents when held past it, and leaves firstVar 0 either way,
\* whatever aloneEvents and holdEvents are.
C4_SecondPressRunsTapTap ==
    SecondPress =>
        /\ ReleasedEarly =>
              /\ Executed(cmd("tap-tap")) = 1
              /\ Executed(cmd("tap-tap-hold")) = 0
              /\ Read(store, cfg.varTap.firstVar) = 0
        /\ HeldPast =>
              /\ Executed(cmd("tap-tap-hold")) = 1
              /\ Executed(cmd("tap-tap")) = 0
              /\ Read(store, cfg.varTap.firstVar) = 0

\* C5: when holdEvents is given and the first press is still down once
\* thresholdMs has passed (the window of the first press has expired) with no
\* second key-down, holdEvents have been executed.
C5_FirstPressHeldRunsHold ==
    (FirstPress /\ NonEmpty(cfg.varTap.holdEvents) /\ ~cur.up /\ last = "invoked")
        => Executed(cmd("hold")) >= 1

\* C6: when aloneEvents is given and the key was pressed once and released
\* before thresholdMs, aloneEvents have been executed by the time the window
\* expires.
C6_SingleTapRunsAlone ==
    (FirstPress /\ NonEmpty(cfg.varTap.aloneEvents) /\ cur.up /\ last = "invoked")
        => Executed(cmd("alone")) >= 1

\* C7: two presses less than thresholdMs apart, the second released early,
\* run tapTapEvents exactly once and no single-tap list; a single press never
\* runs tapTapEvents.
C7_DoubleTapOnceNoSingleTap ==
    /\ (SecondPress /\ ReleasedEarly) =>
          /\ Executed(cmd("tap-tap")) = 1
          /\ Executed(cmd("alone")) = 0
          /\ Executed(cmd("hold")) = 0
    /\ FirstPress => Executed(cmd("tap-tap")) = 0

----------------------------------------------------------------------------
(* C8 and C9: the tap-hold unit *)

TapHoldKey == cfg.tapHoldKeys[1].key
AloneEvent == toKey(TapHoldKey, TRUE)
HoldEvent == cfg.tapHoldKeys[1].hold[1]

\* the keyboard was at rest, the tap-hold key was pressed and taken by its
\* tap-hold manipulator, and no other key has gone down since
TapHoldPress == cur.key = TapHoldKey /\ seq = 1 /\ cur.m \in TapHoldUnits

\* C8: a press of the tap-hold key released before both its alone timeout and
\* its held-down threshold, nothing else intervening, has run the alone list
\* exactly once and the hold list not at all.
C8_TapRunsAloneOnce ==
    (/\ TapHoldPress
     /\ cur.up
     /\ cur.age < Min(AloneTimeout(rules[cur.m]), HeldThreshold(rules[cur.m])))
        => Executed(AloneEvent) = 1 /\ Executed(HoldEvent) = 0

\* the tap-hold key was tapped and the keyboard is quiet again
C8_Witness ==
    /\ TapHoldPress
    /\ cur.up
    /\ cur.age < Min(AloneTimeout(rules[cur.m]), HeldThreshold(rules[cur.m]))
    /\ last = "up"
    /\ Executed(AloneEvent) = 1

----------------------------------------------------------------------------
(* C10 *)

DownloadsVar == sublayerVarOf(LayerD.layerKey)
DownloadsAction == Tag(cmd("open '" \o LayerD.mappings[1].path \o "'"))

\* C10: with the Downloads sublayer declared, pressing d while space_mod is 1
\* leaves space_d_sublayer 1 and space_mod 0; pressing the mapped key p while
\* space_d_sublayer is 1 runs the mapping's command exactly once and leaves
\* space_d_sublayer 0.
C10_ActivateThenMappedKey ==
    HasLayer(LayerD) =>
        /\ (JustPressed(LayerD.layerKey) /\ Read(cur.pre, spaceModVar) = 1)
              => /\ Read(store, DownloadsVar) = 1
                 /\ Read(store, spaceModVar) = 0
        /\ (JustPressed(LayerD.mappings[1].from) /\ Read(cur.pre, DownloadsVar) = 1)
              => /\ Count(emitted, DownloadsAction) = 1
                 /\ Read(store, DownloadsVar) = 0

\* p was pressed in the Downloads sublayer, entered from the armed layer with
\* spacebar still down
C10_Witness ==
    /\ JustPressed(LayerD.mappings[1].from)
    /\ Read(cur.pre, DownloadsVar) = 1
    /\ "spacebar" \in DOMAIN down
    /\ Count(emitted, DownloadsAction) = 1

----------------------------------------------------------------------------
(* C11 and C12: what a mapped key leaves of its sublayer *)

\* the first sublayer of the configuration and its first mapping
MappedLayer == cfg.spaceLayers[1]
MappedVar == sublayerVarOf(MappedLayer.layerKey)
MappedKey == MappedLayer.mappings[1].from
MappingUnit ==
    CHOOSE i \in DOMAIN rules :
        rules[i] = sublayerMapping(MappedLayer, MappedLayer.mappings[1])

\* the mapped key was just pressed with its sublayer active
MappedPress == JustPressed(MappedKey) /\ Read(cur.pre, MappedVar) = 1

\* C11: in a sublayer with releaseLayer true or omitted, after the press of a
\* mapped key has run its action the sublayer variable is 0, whatever the
\* kind of the mapping (path, command, key, sticky modifier).
C11_AutoReleaseClearsSublayer ==
    (MappedPress /\ releaseLayerOf(MappedLayer)) => Read(store, MappedVar) = 0

\* a key-down of the mapped key in its active sublayer runs the mapping: every
\* event it sends is sent once more, and the sublayer variable stays 1
MappedStepRuns ==
    (/\ ~releaseLayerOf(MappedLayer)
     /\ Read(store, MappedVar) = 1
     /\ last' = "down" /\ cur'.key = MappedKey /\ MappedKey \notin DOMAIN down)
        => /\ cur'.m = MappingUnit
           /\ Read(store', MappedVar) = 1
           /\ \A i \in DOMAIN rules[MappingUnit].to :
                 LET e == rules[MappingUnit].to[i]
                 IN Sends(e) => Count(emitted', Tag(e)) = Count(emitted, Tag(e)) + 1

\* the variable of a sticky sublayer falls to 0 only in the key-up of
\* spacebar or the key-down of escape
StickyLayerEnds ==
    (/\ ~releaseLayerOf(MappedLayer)
     /\ Read(store, MappedVar) = 1
     /\ Read(store', MappedVar) = 0)
        => \/ last' = "up" /\ "spacebar" \in DOMAIN down \ DOMAIN down'
           \/ last' = "down" /\ cur'.key = "escape"

\* C12: in a sublayer with releaseLayer false, a mapped press leaves the
\* sublayer variable 1 and every further mapped press runs its action without
\* re-arming; the variable returns to 0 only when spacebar is released or
\* escape is pressed.
C12_StickySublayerPersists ==
    /\ [](MappedPress /\ ~releaseLayerOf(MappedLayer) => Read(store, MappedVar) = 1)
    /\ [][MappedStepRuns /\ StickyLayerEnds]_vars

\* the mapped key of a sticky sublayer was pressed twice in a row and its
\* event was sent twice
C12_Witness ==
    /\ MappedPress
    /\ ~releaseLayerOf(MappedLayer)
    /\ Read(store, MappedVar) = 1
    /\ \E i \in DOMAIN rules[MappingUnit].to :
          /\ Sends(rules[MappingUnit].to[i])
          /\ Count(emitted, Tag(rules[MappingUnit].to[i])) = 2

----------------------------------------------------------------------------
(* C13 to C15: leaving the layer *)

\* the most recent key-down was a sublayer key pressed while space_mod was 1,
\* and it activated its sublayer
Activated ==
    /\ \E i \in DOMAIN cfg.spaceLayers : cfg.spaceLayers[i].layerKey = cur.key
    /\ Read(cur.pre, spaceModVar) = 1

\* C13: after spacebar was held past its threshold and a sublayer key was
\* tapped, the release of spacebar leaves the variable of that sublayer 1
\* (so that the next mapped key still runs the sublayer's action).
C13_SublayerSurvivesSpaceRelease ==
    (/\ Activated
     /\ cur.up
     /\ last = "up"
     /\ "spacebar" \notin DOMAIN down)
        => Read(store, sublayerVarOf(cur.key)) = 1

\* spacebar was pressed from rest and nothing else since, less than its
\* threshold ago
SpaceShortPress == cur.key = "spacebar" /\ seq = 1 /\ cur.age < SpaceMs

\* C14: a press of spacebar from rest released alone before the threshold has
\* sent exactly one spacebar keystroke, has never set space_mod to 1, and
\* leaves space_mod and every sublayer variable 0 with no timer pending.
C14_SpaceTapSendsSpace ==
    /\ SpaceShortPress => Read(store, spaceModVar) = 0
    /\ (SpaceShortPress /\ cur.up) =>
          /\ Executed(toKey("spacebar", FALSE)) = 1
          /\ \A n \in LayerVars(cfg) : Read(store, n) = 0
          /\ delayed.m = 0

\* spacebar was just tapped
C14_Witness ==
    /\ SpaceShortPress
    /\ cur.up
    /\ last = "up"
    /\ Executed(toKey("spacebar", FALSE)) = 1

EscapeUnit == CHOOSE i \in DOMAIN rules : rules[i].from = "escape"
LeftModifiers == {LShift, LOpt, LCmd, LCtrl}
InList(e, list) == \E i \in DOMAIN list : list[i] = e

\* C15: the to list of the escape manipulator sets space_mod and every
\* sublayer variable to 0 and turns the four left sticky modifiers off; after
\* the key-down of escape, from any state, all of them read 0 / off.
C15_EscapeClearsLayersAndSticky ==
    /\ \A n \in LayerVars(cfg) : InList(toSetVar(n, 0), rules[EscapeUnit].to)
    /\ \A m \in LeftModifiers :
          InList(toStickyModifier(m, "off"), rules[EscapeUnit].to)
    /\ JustPressed("escape") =>
          /\ cur.m = EscapeUnit
          /\ \A n \in LayerVars(cfg) : Read(store, n) = 0
          /\ \A m \in LeftModifiers : ~Sticky(store, m)

\* escape was pressed with a sublayer active, space_mod 0 and sticky shift on
C15_Witness ==
    /\ JustPressed("escape")
    /\ Read(cur.pre, MappedVar) = 1
    /\ Read(cur.pre, spaceModVar) = 0
    /\ Sticky(cur.pre, LShift)

----------------------------------------------------------------------------
(* C16 and C17: tap-hold keys, the layer, and races *)

\* the tap-hold unit i took the most recent key-down (its timers are pending
\* or its lists are running for that press) or its delayed action is pending
TapHoldFiring(i) == cur.m = i \/ delayed.m = i

\* C16: for every tap-hold unit of a key of the sublayer alphabet, at most one
\* of these holds in any state: the unit is firing, space_mod is 1, some
\* sublayer variable is 1; also when its key went down before spacebar and
\* is still down when space_mod becomes 1.
C16_TapHoldExcludesLayer ==
    \A i \in TapHoldUnits :
        LET firing == TapHoldFiring(i)
            armed == Read(store, spaceModVar) = 1
            active == \E n \in SublayerVars(cfg) : Read(store, n) = 1
        IN ~(firing /\ armed) /\ ~(firing /\ active) /\ ~(armed /\ active)

\* the tap-hold key went down first, taken by its tap-hold unit, and is still
\* down while space_mod is 1
C16_Witness ==
    /\ TapHoldKey \in DOMAIN down
    /\ down[TapHoldKey].m \in TapHoldUnits
    /\ Read(store, spaceModVar) = 1

\* the rules registered before the space layer rules
SpaceBase ==
    Len(generateTapHoldRules(cfg.tapHoldKeys, cfg.spaceLayers))
        + (IF cfg.special THEN Len(capsLockRule) ELSE 0)

\* the activation and mapping manipulators of the sublayers
SublayerUnits ==
    (SpaceBase + 2) .. (SpaceBase + Len(generateSpaceLayerRules(cfg.spaceLayers)))

\* a sublayer variable becomes 1 only in a key-down taken with space_mod 1
SetOnlyWhenArmed ==
    \A n \in SublayerVars(cfg) :
        (Read(store, n) # 1 /\ Read(store', n) = 1)
            => last' = "down" /\ Read(cur'.pre, spaceModVar) = 1

----------------------------------------------------------------------------
(* C18 to C20: the tap-hold builder *)

\* the unit built directly with tapHold, and where its manipulators start
UnitOpts == cfg.tapUnits[1]
UnitBase == Len(rules) - Len(tapHold(UnitOpts))
UnitKey == UnitOpts.key

\* the application condition of an override holds under app
Matches(ov, app) == IF ov.unless THEN app # ov.app ELSE app = ov.app

\* the position of the first matching override, or of the default pair
Winner(opts, app) ==
    LET hits == {j \in DOMAIN opts.appOverrides : Matches(opts.appOverrides[j], app)}
    IN IF hits = {} THEN Len(opts.appOverrides) + 1
       ELSE CHOOSE j \in hits : \A k \in hits : j <= k

\* the alone/hold pair at a position of the unit
PairAt(opts, j) ==
    IF j <= Len(opts.appOverrides)
    THEN <<OrElse(opts.appOverrides[j].alone, <<>>),
           OrElse(opts.appOverrides[j].hold, <<>>)>>
    ELSE <<OrElse(opts.alone, <<>>), OrElse(opts.hold, <<>>)>>

\* the unit's key was pressed from rest and no other key since
UnitPress == cur.key = UnitKey /\ seq = 1

\* C18: tapHold with appOverrides yields one manipulator per override, in the
\* given order, each with the frontmost-application condition of its matcher
\* (unless-form when unless is set) and its own alone/hold pair, followed by
\* one manipulator without condition holding the default pair; a press is
\* taken by the first override that matches the frontmost application, by
\* the default exactly when none matches, and a tap or a hold runs the alone
\* or hold list of that one.
C18_FirstMatchingOverrideWins ==
    LET n == Len(UnitOpts.appOverrides)
        won == Winner(UnitOpts, cfg.app)
    IN /\ Len(tapHold(UnitOpts)) = n + 1
       /\ \A j \in 1..n :
             /\ rules[UnitBase + j].conditions =
                   <<[type |-> IF UnitOpts.appOverrides[j].unless
                               THEN "frontmost_application_unless"
                               ELSE "frontmost_application_if",
                      name |-> UnitOpts.appOverrides[j].app, value |-> 0]>>
             /\ rules[UnitBase + j].to_if_alone = PairAt(UnitOpts, j)[1]
             /\ rules[UnitBase + j].to_if_held_down = PairAt(UnitOpts, j)[2]
       /\ rules[UnitBase + n + 1].conditions = <<>>
       /\ rules[UnitBase + n + 1].to_if_alone = PairAt(UnitOpts, n + 1)[1]
       /\ rules[UnitBase + n + 1].to_if_held_down = PairAt(UnitOpts, n + 1)[2]
       /\ UnitPress =>
             /\ cur.m = UnitBase + won
             /\ (cur.up /\ cur.age < TapHoldDefaultMs)
                   => emitted = Emit(PairAt(UnitOpts, won)[1], Empty)
             /\ cur.held = "fired"
                   => emitted = Emit(PairAt(UnitOpts, won)[2], Empty)

\* the second of two overrides took the press and its hold list ran
C18_Witness ==
    /\ UnitPress
    /\ Len(UnitOpts.appOverrides) = 2
    /\ cur.m = UnitBase + 2
    /\ cur.held = "fired"
    /\ emitted = Emit(UnitOpts.appOverrides[2].hold, Empty)

\* the default pair took the press although overrides were given
C18_WitnessDefault ==
    /\ UnitPress
    /\ Len(UnitOpts.appOverrides) = 2
    /\ cur.m = UnitBase + 3
    /\ cur.up /\ cur.age < TapHoldDefaultMs
    /\ emitted = Emit(UnitOpts.alone, Empty)

\* C19: when tapHold is given neither alone nor hold events (and no
\* overrides), a press of the key is delivered as the key's own keystroke:
\* no manipulator takes it, or the one that does sends the key.
C19_EmptyUnitPassesThrough ==
    (/\ UnitPress
     /\ UnitOpts.alone = Absent /\ UnitOpts.hold = Absent
     /\ UnitOpts.appOverrides = <<>>)
        => cur.m = 0 \/ Executed(toKey(UnitKey, FALSE)) >= 1

\* the default the comments of tapHold and TapHoldConfig state: 400 ms
DocumentedDefaultMs == 4

\* C20: a tap-hold unit built without timeoutMs and thresholdMs has 400 ms as
\* alone timeout and as held-down threshold: its hold list has not run
\* before the key was down for 400 ms.
C20_DefaultTimingIs400 ==
    DefaultTiming(cfg) =>
        /\ \A i \in TapHoldUnits :
              /\ AloneTimeout(rules[i]) = DocumentedDefaultMs
              /\ HeldThreshold(rules[i]) = DocumentedDefaultMs
        /\ (TapHoldPress /\ cur.held = "fired") => cur.age >= DocumentedDefaultMs

----------------------------------------------------------------------------
(* C21 to C23: the double-tap rules of index.ts *)

CmdQVar == "command_q_pressed"
\* the manipulator that quits, and the one that opens the window
CmdQQuit == CHOOSE i \in DOMAIN rules : rules[i].from = CmdQ /\ ~rules[i].has_delayed
CmdQFirst == CHOOSE i \in DOMAIN rules : rules[i].from = CmdQ /\ rules[i].has_delayed
QuitEvent == toKey(CmdQ, FALSE)

\* the step delivers cmd+q to the application
DeliversQuit ==
    Count(emitted', Tag(QuitEvent)) >
        (IF AtRest THEN 0 ELSE Count(emitted, Tag(QuitEvent)))

\* C21: cmd+q is delivered only by a cmd+q key-down dispatched with
\* command_q_pressed = 1, which is 1 only while the 300 ms window of a
\* previous cmd+q press is pending; a lone press does not deliver it, a
\* double press delivers it exactly once, and command_q_pressed is 0 after
\* the second press and after the window has ended.
C21_QuitNeedsDoublePress ==
    /\ [](/\ Delay(rules[CmdQFirst]) = 3
          /\ Read(store, CmdQVar) = 1 => (delayed.m = CmdQFirst /\ cur.m = CmdQFirst)
          /\ (cur.key = CmdQ /\ seq = 1) => Executed(QuitEvent) = 0
          /\ (JustPressed(CmdQ) /\ seq = 2 /\ Read(cur.pre, CmdQVar) = 1)
                => (Executed(QuitEvent) = 1 /\ Read(store, CmdQVar) = 0))
    /\ [][DeliversQuit =>
             /\ last' = "down" /\ cur'.key = CmdQ /\ cur'.m = CmdQQuit
             /\ Read(store, CmdQVar) = 1
             /\ Read(store', CmdQVar) = 0]_vars

\* the second of two cmd+q presses has delivered cmd+q
C21_Witness ==
    /\ JustPressed(CmdQ) /\ seq = 2
    /\ cur.m = CmdQQuit
    /\ Executed(QuitEvent) = 1
    /\ Read(store, CmdQVar) = 0

\* the window of a lone cmd+q press has ended
C21_WitnessLone ==
    /\ cur.key = CmdQ /\ seq = 1 /\ last = "invoked"
    /\ Executed(QuitEvent) = 0
    /\ Read(store, CmdQVar) = 0

EscVar == "ctrl_opt_esc_first"
EscFirst ==
    CHOOSE i \in DOMAIN rules : rules[i].from = CtrlOptEsc /\ rules[i].has_delayed
\* the two actions the rule names: the script of the single tap, Force Quit
SingleTapAction == KillUnresponsive
ForceQuit == toKey(Chord("escape", "command,option"), FALSE)

\* C22: after a single press of ctrl+opt+escape whose 300 ms window has
\* ended with no second press and no other key, the single-tap action has
\* been executed exactly once.
C22_SingleTapRunsAction ==
    (cur.key = CtrlOptEsc /\ cur.m = EscFirst /\ seq = 1 /\ delayed.m = 0)
        => Executed(SingleTapAction) = 1

\* C23: a second press of ctrl+opt+escape inside the window has emitted
\* Force Quit exactly once and has not executed the single-tap action, and
\* ctrl_opt_esc_first is 0.
C23_DoubleTapForceQuitOnly ==
    (JustPressed(CtrlOptEsc) /\ seq = 2 /\ Read(cur.pre, EscVar) = 1)
        => /\ Executed(ForceQuit) = 1
           /\ Executed(SingleTapAction) = 0
           /\ Read(store, EscVar) = 0

----------------------------------------------------------------------------
(* C24: the release of spacebar *)

\* the step is the key-up of spacebar
SpaceUp == "spacebar" \in DOMAIN down /\ "spacebar" \notin DOMAIN down'

\* what the step must leave alone: the variables that are no layer variable
\* and no sticky state of a left-hand modifier
KeptOnRelease ==
    (DOMAIN store \cup DOMAIN store')
        \ (LayerVars(cfg) \cup {StickyVar(m) : m \in LeftModifiers})

\* C24: the key-up of spacebar, from every state, leaves space_mod and every
\* sublayer variable 0 and the four left-hand sticky modifiers off, and
\* changes no other persisted variable.
C24_SpaceReleaseClears ==
    [][SpaceUp =>
          /\ \A n \in LayerVars(cfg) : Read(store', n) = 0
          /\ \A m \in LeftModifiers : ~Sticky(store', m)
          /\ \A n \in KeptOnRelease : Read(store', n) = Read(store, n)]_vars

\* spacebar went up with left_command down, pressed while space_mod was 1:
\* space_mod is cleared and the first-tap variable is still 1
C24_Witness ==
    /\ last = "up"
    /\ "spacebar" \notin DOMAIN down
    /\ cur.key = cfg.varTap.key /\ ~cur.up
    /\ Read(cur.pre, spaceModVar) = 1
    /\ Read(store, spaceModVar) = 0
    /\ Read(store, cfg.varTap.firstVar) = 1

----------------------------------------------------------------------------
(* C25 to C27: the multi-stage unit *)

\* every combination of the optional event lists: not given, empty, given
AllVarTapOpts ==
    {[VarTapTapHoldOpts("left_command", "lcmd_first_tap") EXCEPT
         !.aloneEvents = a, !.holdEvents = h,
         !.tapTapEvents = t, !.tapTapHoldEvents = th] :
        a \in {Absent, <<>>, <<cmd("alone")>>},
        h \in {Absent, <<>>, <<cmd("hold")>>},
        t \in {Absent, <<cmd("tap-tap")>>},
        th \in {Absent, <<cmd("tap-tap-hold")>>}}

\* a manipulator conditioned on the variable being 1
Continues(m, firstVar) == InList(ifVar(firstVar, 1), m.conditions)
\* an unconditioned manipulator whose to list sets the variable to 1
Primes(m, firstVar) == m.conditions = <<>> /\ InList(toSetVar(firstVar, 1), m.to)

\* C25: in the list varTapTapHold returns, for every combination of the
\* optional event lists, every manipulator conditioned on firstVar = 1 comes
\* before the unconditioned manipulator that sets firstVar to 1; a key-down
\* of the key dispatched with firstVar = 1 is taken by a manipulator
\* conditioned on firstVar = 1, never by the priming one.
C25_ContinuationBeforePrime ==
    /\ \A opts \in AllVarTapOpts :
          LET list == varTapTapHold(opts)
          IN /\ \E j \in DOMAIN list : Primes(list[j], opts.firstVar)
             /\ \E i \in DOMAIN list : Continues(list[i], opts.firstVar)
             /\ \A i, j \in DOMAIN list :
                   (Continues(list[i], opts.firstVar) /\ Primes(list[j], opts.firstVar))
                       => i < j
    /\ (JustPressed(VarTapKey) /\ Read(cur.pre, cfg.varTap.firstVar) = 1)
          => /\ cur.m # 0
             /\ Continues(rules[cur.m], cfg.varTap.firstVar)
             /\ ~Primes(rules[cur.m], cfg.varTap.firstVar)

\* a second press with firstVar = 1 was taken by the second-press manipulator
C25_Witness ==
    /\ JustPressed(VarTapKey) /\ seq = 2
    /\ Read(cur.pre, cfg.varTap.firstVar) = 1
    /\ rules[cur.m] = secondTap(cfg.varTap)

\* the priming manipulator of the multi-stage unit
PrimeUnit == CHOOSE i \in DOMAIN rules : rules[i] = firstTap(cfg.varTap)
FirstVarSet == Read(store, cfg.varTap.firstVar) = 1

\* the step ends the window of the first press: its delay has elapsed
\* (invoked) or a key went down (canceled)
WindowEnds == delayed.m = PrimeUnit /\ last' \in {"invoked", "down"}

\* C26: after a first press of the multi-stage key firstVar returns to 0
\* without a further press of the key.  firstVar is 1 only while the delayed
\* action of the first press is pending with thresholdMs as its delay; the
\* window ends in one step, by the delay elapsing or by a key-down, and that
\* step leaves firstVar 0; no other step ends it; and it always ends.
C26_FirstVarReturnsToZero ==
    /\ [](/\ Delay(rules[PrimeUnit]) = ThresholdMs
          /\ FirstVarSet => (delayed.m = PrimeUnit /\ cur.m = PrimeUnit))
    /\ [][/\ WindowEnds => (~FirstVarSet' /\ delayed'.m # PrimeUnit)
          /\ (delayed.m = PrimeUnit /\ ~WindowEnds)
                => (delayed'.m = PrimeUnit /\ (FirstVarSet' <=> FirstVarSet))]_vars
    /\ (FirstVarSet ~> ~FirstVarSet)

\* the window of a single press has expired and firstVar is 0
C26_Witness ==
    /\ FirstPress /\ cur.m = PrimeUnit
    /\ last = "invoked"
    /\ ~FirstVarSet

\* the window of a first press was canceled by another key
C26_WitnessCanceled ==
    /\ JustPressed("p") /\ seq = 2
    /\ Read(cur.pre, cfg.varTap.firstVar) = 1
    /\ ~FirstVarSet

\* a delayed action of a manipulator of key k is pending
DelayedFor(k) == delayed.m # 0 /\ rules[delayed.m].from = k
\* the current press of key k awaits its alone/held-down resolution
Awaiting(k) ==
    /\ cur.key = k /\ ~cur.up /\ cur.m # 0
    /\ rules[cur.m].to_if_alone \o rules[cur.m].to_if_held_down # <<>>
    /\ cur.held # "fired"
\* the timers outstanding for key k
Windows(k) ==
    (IF DelayedFor(k) THEN {<<"delayed", delayed.m>>} ELSE {})
        \cup (IF Awaiting(k) THEN {<<"press", cur.m>>} ELSE {})

\* C27: whatever the sequence of presses of the multi-stage key, a third
\* press after a second one included, at most one window is outstanding for
\* the key and it belongs to the most recent press; a press of the key while
\* a window is pending ends that window, and a window it opens starts with
\* its full delay.
C27_OneWindowPerKey ==
    /\ [](/\ Cardinality(Windows(VarTapKey)) <= 1
          /\ DelayedFor(VarTapKey) => (delayed.m = cur.m /\ cur.key = VarTapKey))
    /\ [][(last' = "down" /\ cur'.key = VarTapKey /\ DelayedFor(VarTapKey))
             => \/ delayed'.m = 0
                \/ delayed'.m = cur'.m /\ delayed'.left = Delay(rules[cur'.m])]_vars

\* a third press, after a double tap made with p down, has opened the only
\* window
C27_Witness ==
    /\ JustPressed(VarTapKey) /\ seq = 4
    /\ "p" \in DOMAIN down
    /\ cur.m = PrimeUnit
    /\ Executed(toKey(VarTapKey, FALSE)) = 2
    /\ Executed(cmd("tap-tap")) = 1
    /\ Windows(VarTapKey) = {<<"delayed", PrimeUnit>>}

\* a second press has ended the window of the first and awaits its own
\* resolution
C27_WitnessSecond ==
    /\ SecondPress /\ JustPressed(VarTapKey)
    /\ Windows(VarTapKey) = {<<"press", cur.m>>}

----------------------------------------------------------------------------
(* C28: the multi-stage unit and the space layer *)

\* the manipulators of the multi-stage unit
VarTapUnits ==
    {i \in DOMAIN rules :
        \E j \in DOMAIN varTapTapHold(cfg.varTap) :
            rules[i] = varTapTapHold(cfg.varTap)[j]}
\* the keys of the sublayers: activation keys and mapped keys
SublayerAlphabet ==
    UNION {{cfg.spaceLayers[i].layerKey}
               \cup {cfg.spaceLayers[i].mappings[j].from :
                        j \in DOMAIN cfg.spaceLayers[i].mappings} :
           i \in DOMAIN cfg.spaceLayers}

\* C28: a multi-stage unit on a sublayer activation key or on a key of a
\* sublayer's alphabet is eligible only when space_mod and every sublayer
\* variable are 0.
C28_VarTapGuardedByLayerVars ==
    VarTapKey \in SublayerAlphabet =>
        \A i \in VarTapUnits :
            Eligible(rules[i], VarTapKey, store, cfg.app)
                => \A n \in LayerVars(cfg) : Read(store, n) = 0

----------------------------------------------------------------------------
(* C29 and C30: the values of the variables *)

\* the action lists of a manipulator
Lists(m) ==
    {m.to, m.to_if_alone, m.to_if_held_down, m.to_after_key_up,
     m.to_if_invoked, m.to_if_canceled}
\* e is a set_variable event of the generated rules
Written(e) ==
    \E i \in DOMAIN rules : \E l \in Lists(rules[i]) : InList(e, l)
\* every set_variable event of the generated rules satisfies P
EveryWrite(P(_)) ==
    \A i \in DOMAIN rules : \A l \in Lists(rules[i]) : \A j \in DOMAIN l :
        l[j].type = "set_variable" => P(l[j])
\* the variables the rules are written for
RuleVars ==
    LayerVars(cfg) \cup {cfg.varTap.firstVar}
        \cup {otherVars[i] : i \in DOMAIN otherVars}
\* the variables of the store; the sticky state of a modifier is none
StoredVars == DOMAIN store \ {StickyVar(m) : m \in LeftModifiers}

AntinoteVar == "cmd_d_ready"
AntinoteFirst == CHOOSE i \in DOMAIN rules : rules[i].from = CmdD /\ rules[i].has_delayed

\* C30: a variable that was never written counts as 0.  With nothing in
\* the store every guarded tap-hold unit is eligible for its key and no
\* sublayer activation or mapping manipulator is eligible for any key; the
\* first press of cmd+q, of ctrl+opt+escape and, in Antinote, of cmd+d is
\* taken by the first-press manipulator and sets the variable.
C30_UnwrittenReadsZero ==
    /\ store = Empty =>
          /\ \A i \in TapHoldUnits :
                Eligible(rules[i], rules[i].from, store, cfg.app)
          /\ \A i \in SublayerUnits : \A k \in AllKeys :
                ~Eligible(rules[i], k, store, cfg.app)
    /\ (JustPressed(CmdQ) /\ cur.pre = Empty)
          => (cur.m = CmdQFirst /\ Read(store, CmdQVar) = 1)
    /\ (JustPressed(CtrlOptEsc) /\ cur.pre = Empty)
          => (cur.m = EscFirst /\ Read(store, EscVar) = 1)
    /\ (JustPressed(CmdD) /\ cur.pre = Empty /\ cfg.app \in AntinoteApps)
          => (cur.m = AntinoteFirst /\ Read(store, AntinoteVar) = 1)

\* the first press of cmd+d in Antinote, with nothing written before
C30_Witness ==
    /\ JustPressed(CmdD) /\ seq = 1 /\ cur.pre = Empty
    /\ cfg.app \in AntinoteApps
    /\ cur.m = AntinoteFirst
    /\ Read(store, AntinoteVar) = 1

\* the first press of d with nothing written is taken by its tap-hold unit
C30_WitnessTapHold ==
    /\ JustPressed("d") /\ seq = 1 /\ cur.pre = Empty
    /\ cur.m \in TapHoldUnits

----------------------------------------------------------------------------
(* C31 *)

\* the keys that activate a sublayer and the keys some sublayer maps
ActivationKeys == {cfg.spaceLayers[i].layerKey : i \in DOMAIN cfg.spaceLayers}
MappedKeys ==
    UNION {{cfg.spaceLayers[i].mappings[j].from :
               j \in DOMAIN cfg.spaceLayers[i].mappings} :
           i \in DOMAIN cfg.spaceLayers}

\* spacebar was pressed from rest, its held-down threshold fired, and the
\* next key-down, with spacebar still down, is the one just dispatched
PressedInArmedLayer ==
    /\ last = "down"
    /\ seq = 2
    /\ "spacebar" \in DOMAIN down
    /\ down["spacebar"].m = SpaceBase + 1
    /\ Read(cur.pre, spaceModVar) = 1

\* C31: once the held-down threshold of spacebar has fired (space_mod = 1)
\* and spacebar is still down, the key-down of a sublayer activation key or
\* of a mapped key runs no canceled list of the spacebar's delayed action: no
\* spacebar keystroke has been sent, an activation key leaves its sublayer
\* variable 1, and any other such key leaves space_mod 1.
C31_ArmedLayerSurvivesKeyDown ==
    (PressedInArmedLayer /\ cur.key \in ActivationKeys \cup MappedKeys)
        => /\ Executed(toKey("spacebar", FALSE)) = 0
           /\ cur.key \in ActivationKeys
                 => Read(store, sublayerVarOf(cur.key)) = 1
           /\ cur.key \notin ActivationKeys
                 => Read(store, spaceModVar) = 1

----------------------------------------------------------------------------
(* C32 *)

AllLayersOff == \A n \in LayerVars(cfg) : Read(store, n) = 0

\* space_mod goes to 1 only when the held-down threshold of the spacebar
\* press fires, and that timer is started only by a key-down of spacebar
ArmedOncePerPress ==
    /\ (Read(store, spaceModVar) # 1 /\ Read(store', spaceModVar) = 1)
          => /\ last' = "held"
             /\ cur.key = "spacebar" /\ cur.held = "pending"
             /\ cur'.key = "spacebar" /\ cur'.held = "fired"
    /\ (cur'.key = "spacebar" /\ cur'.held = "pending" /\ cur.held # "pending")
          => last' = "down" /\ "spacebar" \notin DOMAIN down

\* spacebar is down, its held-down timer is no longer pending and every
\* layer variable is 0
LayerSpent ==
    /\ "spacebar" \in DOMAIN down
    /\ ~(cur.key = "spacebar" /\ cur.held = "pending")
    /\ AllLayersOff

\* while spacebar stays down after the layer is spent, every layer variable
\* stays 0 and no key-down is taken by a sublayer manipulator
SpentUntilRelease ==
    (LayerSpent /\ "spacebar" \in DOMAIN down')
        => /\ AllLayersOff'
           /\ last' = "down" => cur'.m \notin SublayerUnits

\* C32: space_mod is set to 1 at most once per press of spacebar; after a
\* sublayer was activated and released by its mapping with spacebar still
\* down, every layer variable stays 0 until spacebar is released, and a
\* sublayer activation key pressed in between activates nothing.
C32_ArmedOncePerSpacePress ==
    [][ArmedOncePerPress /\ SpentUntilRelease]_vars

\* spacebar held, the sublayer activated and released by its mapped key,
\* then the activation key pressed again with spacebar still down
C32_Witness ==
    /\ JustPressed(MappedLayer.layerKey)
    /\ seq = 4
    /\ "spacebar" \in DOMAIN down
    /\ releaseLayerOf(MappedLayer)
    /\ \E i \in DOMAIN rules[MappingUnit].to :
          /\ Sends(rules[MappingUnit].to[i])
          /\ Count(emitted, Tag(rules[MappingUnit].to[i])) = 1
    /\ \A n \in LayerVars(cfg) : Read(cur.pre, n) = 0
    /\ AllLayersOff

----------------------------------------------------------------------------
(* C33 *)

\* the spacebar manipulator, and the manipulators of generateTapHoldRules,
\* generateSpaceLayerRules and generateEscapeRule
SpaceUnit == SpaceBase + 1
LayerRuleUnits ==
    1 .. (SpaceBase + Len(generateSpaceLayerRules(cfg.spaceLayers))
            + Len(generateEscapeRule(cfg.spaceLayers)))

\* the variables some list of these manipulators sets to 1
SetToOne ==
    UNION {UNION {{l[j].name : j \in {x \in DOMAIN l :
                                        /\ l[x].type = "set_variable"
                                        /\ l[x].value = 1}} :
                  l \in Lists(rules[i])} :
           i \in LayerRuleUnits}

\* the four lists that reset the layer
ResetPaths ==
    {rules[SpaceUnit].to_if_alone, rules[SpaceUnit].to_after_key_up,
     rules[SpaceUnit].to_if_canceled, rules[EscapeUnit].to}

\* C33: for every spaceLayers list, the variables the generated layer
\* manipulators set to 1 are exactly space_mod and space_<k>_sublayer of the
\* configured k, and each of them is set to 0 by the tap list, the key-up
\* list and the canceled list of the spacebar and by the escape list.
C33_ResetPathsCoverLayerVars ==
    /\ SetToOne = LayerVars(cfg)
    /\ \A n \in SetToOne : \A l \in ResetPaths : InList(toSetVar(n, 0), l)

\* two sublayers are declared; a key pressed in the armed layer canceled the
\* delayed action of spacebar, whose list reset the layer
C33_Witness ==
    /\ Cardinality(SetToOne) = 3
    /\ last = "down"
    /\ "spacebar" \in DOMAIN down
    /\ Read(cur.pre, spaceModVar) = 1
    /\ cur.m = 0
    /\ AllLayersOff

----------------------------------------------------------------------------
(* C34 *)

\* the keys a sublayer maps
AlphabetOf(layer) == {layer.mappings[j].from : j \in DOMAIN layer.mappings}

\* the key just pressed was dispatched with some sublayer active that does
\* not map it
UnmappedPress ==
    /\ last = "down"
    /\ \E i \in DOMAIN cfg.spaceLayers :
          /\ Read(cur.pre, sublayerVarOf(cfg.spaceLayers[i].layerKey)) = 1
          /\ cur.key \notin AlphabetOf(cfg.spaceLayers[i])

\* the press was taken by no manipulator: the key goes through as itself, no
\* list runs, no timer starts, and the layer variables are as before
PlainPress ==
    /\ cur.m = 0
    /\ cur.held = "none"
    /\ delayed.m = 0
    /\ \A n \in LayerVars(cfg) : Read(store, n) = Read(cur.pre, n)

C34_WitnessActivationKey ==
    /\ UnmappedPress
    /\ Read(cur.pre, DownloadsVar) = 1
    /\ cur.key = "d"
    /\ PlainPress

----------------------------------------------------------------------------
(* C35 *)

\* the overrides of the unit that bring an alone list and no cancel list
AloneOnlyOverrides ==
    {j \in DOMAIN UnitOpts.appOverrides :
        /\ Given(UnitOpts.appOverrides[j].alone)
        /\ ~Given(UnitOpts.appOverrides[j].cancel)}

\* the cancel list of the unit, or else its alone list
TopLevelCancel == OrElse(UnitOpts.cancel, OrElse(UnitOpts.alone, <<>>))

\* the unit's key is down, taken by override j, and the key-down after it
\* was just dispatched
CanceledOverride(j) ==
    /\ last = "down"
    /\ seq = 2
    /\ cur.key # UnitKey
    /\ UnitKey \in DOMAIN down
    /\ down[UnitKey].m = UnitBase + j

\* a key-down while the delayed action of override j is pending runs the
\* cancel list of the unit (or else its alone list) once more and nothing
\* of the alone list of the override
CancelRunsTopLevel ==
    \A j \in AloneOnlyOverrides :
        (delayed.m = UnitBase + j /\ last' = "down")
            => /\ \A i \in DOMAIN TopLevelCancel :
                     Count(emitted', Tag(TopLevelCancel[i]))
                         = Count(emitted, Tag(TopLevelCancel[i])) + 1
               /\ \A i \in DOMAIN UnitOpts.appOverrides[j].alone :
                     Count(emitted', Tag(UnitOpts.appOverrides[j].alone[i]))
                         = Count(emitted, Tag(UnitOpts.appOverrides[j].alone[i]))

\* C35: the manipulator of an override of tapHold that has an alone list and
\* no cancel list carries as to_if_canceled the cancel list of the unit if
\* given and otherwise the alone list of the unit, not the alone list of the
\* override (which stays its to_if_alone); a key-down during its delayed
\* action runs that list and nothing of the override's alone list.
C35_OverrideCancelIsTopLevel ==
    /\ [](\A j \in AloneOnlyOverrides :
            /\ rules[UnitBase + j].to_if_canceled = TopLevelCancel
            /\ rules[UnitBase + j].to_if_alone = UnitOpts.appOverrides[j].alone)
    /\ [][CancelRunsTopLevel]_vars

\* in Skim, f was pressed and p came during the delayed action: the override
\* has its own alone list, the unit has an alone list and no cancel list, and
\* the alone list of the unit ran
C35_Witness ==
    /\ 1 \in AloneOnlyOverrides
    /\ CanceledOverride(1)
    /\ ~Given(UnitOpts.cancel)
    /\ Given(UnitOpts.alone)
    /\ Executed(UnitOpts.alone[1]) = 1

\* the same with a cancel list given to the unit: that list ran
C35_WitnessCancelGiven ==
    /\ 1 \in AloneOnlyOverrides
    /\ CanceledOverride(1)
    /\ Given(UnitOpts.cancel)
    /\ Given(UnitOpts.alone)
    /\ Executed(UnitOpts.cancel[1]) = 1
    /\ Executed(UnitOpts.alone[1]) = 0

----------------------------------------------------------------------------
(* C36 *)

\* the unit built directly with tapHold sends the Dictation key by its
\* virtual name when tapped
DictationByName ==
    UnitOpts.alone = <<consumerKey("vk_consumer_dictation")>>

\* the unit's key was pressed from rest and released alone before the
\* timeout: its alone list ran
UnitTapped ==
    /\ UnitPress /\ last = "up" /\ cur.up
    /\ cur.m = UnitBase + Len(UnitOpts.appOverrides) + 1
    /\ Executed(UnitOpts.alone[1]) = 1

\* C36: consumerKey('vk_consumer_dictation') and vkConsumerDictation() return
\* the same event: a tap that sends the key by its virtual name has sent the
\* event the Dictation helper returns.
C36_DictationHelpersAgree ==
    (DictationByName /\ UnitTapped) => Executed(vkConsumerDictation) = 1

----------------------------------------------------------------------------
(* C37 *)

\* the action of each field of a mapping, in the order of precedence: path,
\* command, stickyModifier, key
FieldActions(config) ==
    <<IF config.path # "" THEN <<cmd("open '" \o config.path \o "'")>> ELSE <<>>,
      IF config.command # "" THEN <<cmd(config.command)>> ELSE <<>>,
      IF config.stickyModifier # ""
      THEN <<toStickyModifier(modMap(config.stickyModifier), "toggle")>> ELSE <<>>,
      IF config.key # "" THEN <<toKey(config.key, FALSE)>> ELSE <<>>>>

\* the fields of the mapping that were given
GivenFields(config) == {i \in 1..4 : FieldActions(config)[i] # <<>>}

\* the action of the first given field, or nothing
Primary(config) ==
    IF GivenFields(config) = {} THEN <<>>
    ELSE FieldActions(config)[CHOOSE i \in GivenFields(config) :
                                 \A j \in GivenFields(config) : i <= j]

\* the events of a list that are not variable writes
Actions(list) == SelectSeq(list, LAMBDA e : e.type # "set_variable")

MappedConfig == MappedLayer.mappings[1]

\* a key-down of the mapped key in its active sublayer is taken by the
\* mapping; it sends what the primary action sends, once, and nothing of the
\* other fields; with no field given it sends nothing and changes no more
\* than the sublayer variable
PrimaryOnlyRuns ==
    (Read(store, MappedVar) = 1 /\ last' = "down" /\ cur'.key = MappedKey)
        => /\ cur'.m = MappingUnit
           /\ \A i \in 1..4 : \A x \in DOMAIN FieldActions(MappedConfig)[i] :
                 LET e == FieldActions(MappedConfig)[i][x]
                 IN Sends(e) =>
                       Count(emitted', Tag(e)) =
                           Count(emitted, Tag(e))
                               + (IF <<e>> = Primary(MappedConfig) THEN 1 ELSE 0)
           /\ GivenFields(MappedConfig) = {} =>
                 /\ emitted' = emitted
                 /\ \A n \in DOMAIN store \cup DOMAIN store' :
                       n # MappedVar => Read(store', n) = Read(store, n)
                 /\ Read(store', MappedVar) =
                        (IF releaseLayerOf(MappedLayer) THEN 0 ELSE 1)

\* C37: the to list of a sublayer mapping holds at most one action, the one
\* of the first given field in the order path, command, stickyModifier, key,
\* whatever other fields are given; with no field given the list is empty,
\* or only clears the sublayer variable in an auto-release sublayer, and the
\* manipulator still takes the key.
C37_OnePrimaryActionByPrecedence ==
    /\ [](/\ Actions(rules[MappingUnit].to) = Primary(MappedConfig)
          /\ Len(Actions(rules[MappingUnit].to)) <= 1
          /\ GivenFields(MappedConfig) = {} =>
                rules[MappingUnit].to =
                    (IF releaseLayerOf(MappedLayer)
                     THEN <<toSetVar(MappedVar, 0)>> ELSE <<>>))
    /\ [][PrimaryOnlyRuns]_vars

\* the mapped key was pressed in its sublayer with all four fields given:
\* the path was opened and nothing else ran
C37_Witness ==
    /\ MappedPress
    /\ Cardinality(GivenFields(MappedConfig)) = 4
    /\ Executed(cmd("open '" \o MappedConfig.path \o "'")) = 1
    /\ Executed(cmd(MappedConfig.command)) = 0
    /\ Executed(toKey(MappedConfig.key, FALSE)) = 0
    /\ ~Sticky(store, modMap(MappedConfig.stickyModifier))

\* the mapped key was pressed in an auto-release sublayer with no field
\* given: the key was taken and the sublayer variable cleared
C37_WitnessNoField ==
    /\ MappedPress
    /\ GivenFields(MappedConfig) = {}
    /\ releaseLayerOf(MappedLayer)
    /\ cur.m = MappingUnit
    /\ Read(store, MappedVar) = 0

====
